---- MODULE Spec2Model ----
(***************************************************************************)
(* Model of listarr: the MyAnimeList series-root tracer                    *)
(* (traceToRootSeries), the two watchlist adapters and the announced       *)
(* ledger they share.                                                      *)
(*                                                                         *)
(* The upstream catalogue (Jikan) is an external service.  What it answers *)
(* is not known before it is asked, so an answer is chosen when a request  *)
(* is first made and remembered afterwards (rel, info): every later        *)
(* request for the same resource sees the same catalogue.                  *)
(*                                                                         *)
(* SpecTrace is one call of traceToRootSeries against every catalogue and  *)
(* every set of known roots.  SpecScrape is a run of refreshData passes,   *)
(* one after another, over every pair of watchlists, against one fixed     *)
(* catalogue (a series, its later seasons and a movie); in it the tracer   *)
(* takes the same steps, called by the MyAnimeList adapter.  Any request   *)
(* and any write of the log may fail, and the process may be stopped and   *)
(* started again, up to MaxFailures times in a run all together.           *)
(* SpecUsers is the same run with two Letterboxd usernames configured,     *)
(* SpecLocal the same run with DATA_DIR unset, and                         *)
(* SpecTimer is the same run with the passes started by the timer of main, *)
(* which does not wait for the pass before: the calls of refreshData       *)
(* interleave at their awaits.                                             *)
(*                                                                         *)
(* SpecLimiter is the two rate limiters (rateLimitedRequest, jikanRequest) *)
(* called by up to MaxCallers concurrent callers, SpecRetry is one request *)
(* of the HTTP client with its retries and its beforeRetry hook, and       *)
(* SpecLoad is the loading of the ledger from a log of any lines.          *)
(***************************************************************************)
EXTENDS Naturals, Integers, Sequences, FiniteSets, TLC

\* ------------------------------------------------------------------ bounds
NumNodes == 3        \* anime ids of the catalogue: 1..NumNodes
MaxRelations == 2    \* relation records the catalogue holds in total
MaxFailures == 1     \* faults in one run: a request or a write that
                     \* fails, or a stop of the process

Nodes == 1..NumNodes

\* ------------------------------------------------------- catalogue values
\* The relation names traceToRootSeries looks at.
ParentStory == "Parent Story"
Prequel == "Prequel"
FullStory == "Full Story"
Sequel == "Sequel"
RelationKinds == {ParentStory, Prequel, FullStory, Sequel}

\* One element of a relations response: { relation, entry: [{mal_id}] }.
\* entry is a list; only entry[0] is ever read.
Entries == {<<>>} \cup {<<n>> : n \in Nodes}
RelationRecords == [relation : RelationKinds, entry : Entries]

\* /anime/{id}: { type, episodes }.  The answers a trace can meet: a TV
\* series, a single-episode TV entry, and an entry of several episodes that
\* is not TV.
\* The declared type of the start node is only ever compared with "Movie".
DeclaredTypes == {"TV", "Movie"}
NodeInfos ==
  { [type |-> "TV", episodes |-> 12],
    [type |-> "TV", episodes |-> 1],
    [type |-> "OVA", episodes |-> 2] }

\* A relations response: the upstream groups entries by relation, so a
\* relation name occurs once; the order of the groups is the upstream's.
\* RelLists(k): the responses of at most k groups.
KindsOf(l) == {l[i].relation : i \in 1..Len(l)}

RECURSIVE RelLists(_)
RelLists(k) ==
  IF k = 0 THEN {<<>>}
  ELSE LET shorter == RelLists(k - 1)
           longest == {l \in shorter : Len(l) = k - 1}
       IN shorter \cup
          UNION { { Append(l, r) :
                    r \in {x \in RelationRecords : x.relation \notin KindsOf(l)} }
                  : l \in longest }

VARIABLES
  rel,            \* catalogue: relations response per anime id (once asked)
  info,           \* catalogue: { type, episodes } per anime id (once asked)
  byRootMalId,    \* announced.byRootMalId
  malId,          \* traceToRootSeries: the starting id
  originalType,   \* traceToRootSeries: declared type of the starting id
  visited,        \* traceToRootSeries: visited
  currentId,      \* traceToRootSeries: currentId
  hasTV,          \* hasTVParentStory / hasTVSequel / hasTVPrequel
  intermediaries, \* ids handed to onIntermediaryFound, in order
  tpc,            \* position inside traceToRootSeries
  rootMalId,      \* the value traceToRootSeries returned
  returnedAt,     \* which return statement produced it
  requests,       \* jikanRequest calls dispatched by the trace, in order
  loops,          \* number of times the while body was entered
  failures        \* requests and writes that have failed so far

VARIABLES
  lbList,       \* upstream: the Letterboxd watchlist of each username
  malList,      \* upstream: the MyAnimeList list of each username
  dataDir,      \* DATA_DIR
  disk,         \* the announced.jsonl of each directory, as lines
  byKey,        \* announced.byKey
  byMalId,      \* announced.byMalId
  allEntries,   \* allEntries
  callbacks,    \* the invocations of the adapters' onEntryProcessed
  pass,         \* number of refreshData calls started
  spc,          \* position inside refreshData and the adapters
  user,         \* scrapeSource: index of the username being scraped
  page,         \* currentPage (Letterboxd) or offset (MyAnimeList)
  items,        \* the items of the listing page being processed
  itemIdx,      \* index in items of the item being processed
  entry,        \* the entry handed to the callback in progress
  newEntries,   \* letterboxdEntries followed by malEntries
  interIdx,     \* index of the intermediary whose stub is due
  itemKnown,    \* the native id of the current item was in the ledger
                \* when its processing began
  notified,     \* the entries whose Discord webhook post was made
  restarts,     \* number of times the process was stopped and started
  itemStart,    \* the ledger as it was when the current item began
  existingContent, \* the text of the log a pending append has read
  started,      \* the <<source, username>> scrapes begun in this pass
  mpc,          \* position of main: "start", "initial" or "serving"
  suspended     \* the refreshData calls waiting at an await while
                \* another one runs, each with its locals

traceVars == <<malId, originalType, visited, currentId, hasTV, intermediaries,
               tpc, rootMalId, returnedAt, requests, loops>>

scrapeVars == <<lbList, malList, dataDir, disk, byKey, byMalId, allEntries,
                callbacks, pass, spc, user, page, items, itemIdx, entry,
                newEntries, interIdx, itemKnown, notified, restarts,
                itemStart, existingContent, started, mpc, suspended>>

\* What no step of an adapter changes.
quietVars == <<restarts, mpc, suspended>>

VARIABLES
  now,          \* Date.now(), in milliseconds
  lastRequest,  \* lastLetterboxdRequest and lastJikanRequest
  calls,        \* the calls of a rate-limited request function
  dispatched,   \* per upstream, the requests dispatched so far
  hpc,          \* position of a request made through httpClient
  retryCount,   \* the retries ky has begun for it
  responses,    \* the responses it has received, in order
  delays,       \* the waits of the beforeRetry hook, in order
  readable,     \* the text of ANNOUNCED_FILE can be read
  lbUsers       \* config.letterboxd: the usernames configured

limiterVars == <<now, lastRequest, calls, dispatched>>

retryVars == <<hpc, retryCount, responses, delays>>

loadVars == <<readable>>

\* The variables of the rate limiters, of the http client and of the
\* ledger file being loaded, and the configuration.
configVars == <<lbUsers>>

auxVars == <<limiterVars, retryVars, loadVars, configVars>>

\* The variables of the tracer, the adapters, refreshData and main.
programVars == <<rel, info, byRootMalId, traceVars, failures, scrapeVars>>

vars == <<rel, info, byRootMalId, malId, originalType, visited, currentId,
          hasTV, intermediaries, tpc, rootMalId, returnedAt, requests, loops,
          failures, lbList, malList, dataDir, disk, byKey, byMalId, allEntries,
          callbacks, pass, spc, user, page, items, itemIdx, entry,
          newEntries, interIdx, itemKnown, notified, restarts, itemStart, existingContent,
          started, mpc, suspended, auxVars>>

\* ------------------------------------------------------------ the upstream
RECURSIVE SumLen(_, _)
SumLen(f, S) ==
  IF S = {} THEN 0
  ELSE LET n == CHOOSE x \in S : TRUE
       IN Len(f[n]) + SumLen(f, S \ {n})

\* Relation records the catalogue has shown so far.
RelationCount == SumLen(rel, DOMAIN rel)

\* What GET /anime/{id}/relations can answer (data).
RelationsAnswers(id) ==
  IF id \in DOMAIN rel THEN {rel[id]}
  ELSE RelLists(MaxRelations - RelationCount)

\* What GET /anime/{id} can answer (data.type, data.episodes).
AnimeAnswers(id) ==
  IF id \in DOMAIN info THEN {info[id]} ELSE NodeInfos

RelationsRequest(id) == [path |-> "relations", id |-> id]
AnimeRequest(id) == [path |-> "anime", id |-> id]

\* ------------------------------------------------------- traceToRootSeries
isOriginalMovie == originalType = "Movie"

\* relations.find(r => r.relation is one of kinds): index of the first
\* match in the order of the response, 0 when there is none.
FindRelation(relations, kinds) ==
  LET hits == {i \in 1..Len(relations) : relations[i].relation \in kinds}
  IN IF hits = {} THEN 0
     ELSE CHOOSE i \in hits : \A j \in hits : i <= j

\* The predicate of the parentRelation find.
ParentKindsNoPrequel ==
  {ParentStory, FullStory} \cup (IF isOriginalMovie THEN {Sequel} ELSE {})

ParentKinds ==
  {ParentStory, Prequel, FullStory} \cup (IF isOriginalMovie THEN {Sequel} ELSE {})

\* type === "TV" && episodes && episodes > 1
IsMultiEpisodeTV(anime) == anime.type = "TV" /\ anime.episodes > 1

\* A return that always gives back the id the trace started from.
ReturnStart(id, at) ==
  /\ tpc' = "done"
  /\ rootMalId' = malId
  /\ returnedAt' = at

\* return id, from the return statement named at.
Return(id, at) ==
  /\ tpc' = "done"
  /\ rootMalId' = id
  /\ returnedAt' = at

\* A request or a write fails: it throws.
Fails ==
  /\ failures + restarts < MaxFailures
  /\ failures' = failures + 1

\* The visited check of the loop.
NeverVisited == FALSE

AlreadyVisited == currentId \in visited

\* What the visited check returns.
CycleReturnStart == malId

CycleReturn == currentId

\* The movie special case applies to the starting node of a Movie.
MovieSpecialCase == isOriginalMovie /\ currentId = malId

\* !hasTVParentStory && !hasTVSequel && !hasTVPrequel
NeverStandalone == FALSE

Standalone == ~hasTV[ParentStory] /\ ~hasTV[Sequel] /\ ~hasTV[Prequel]

\* announced.byRootMalId.has(parentId)
NoKnownRoot(parentId) == FALSE

KnownRoot(parentId) == parentId \in byRootMalId

\* "only if it's not the starting ID"
AlwaysIntermediary == TRUE

IsIntermediary == currentId # malId

\* Top of the while body up to the relations request and its answer.
TraceLoop ==
  /\ tpc = "loop"
  /\ loops' = loops + 1
  /\ IF AlreadyVisited
     THEN /\ Return(CycleReturn, "visited")
          /\ UNCHANGED <<rel, visited, requests, failures>>
     ELSE /\ visited' = visited \cup {currentId}
          /\ requests' = Append(requests, RelationsRequest(currentId))
          /\ \/ /\ Fails
                /\ Return(currentId, "catch")
                /\ UNCHANGED rel
             \/ \E relations \in RelationsAnswers(currentId) :
                  /\ UNCHANGED failures
                  /\ rel' = (currentId :> relations) @@ rel
                  /\ tpc' = IF MovieSpecialCase
                            THEN "movieParentStory" ELSE "select"
                  /\ UNCHANGED <<rootMalId, returnedAt>>
  /\ UNCHANGED <<info, byRootMalId, malId, originalType, currentId, hasTV,
                 intermediaries>>
  /\ UNCHANGED <<scrapeVars, auxVars>>

\* One of the three checks of the movie special case: find the relation,
\* and if it has an entry ask for that anime and test it.
MovieCheck(kind, here, next) ==
  /\ tpc = here
  /\ LET relations == rel[currentId]
         i == FindRelation(relations, {kind})
     IN IF i # 0 /\ Len(relations[i].entry) > 0
        THEN LET id == relations[i].entry[1]
             IN /\ requests' = Append(requests, AnimeRequest(id))
                /\ \/ /\ Fails
                      /\ Return(currentId, "catch")
                      /\ UNCHANGED <<info, hasTV>>
                   \/ \E anime \in AnimeAnswers(id) :
                        /\ UNCHANGED failures
                        /\ info' = (id :> anime) @@ info
                        /\ hasTV' = [hasTV EXCEPT ![kind] = IsMultiEpisodeTV(anime)]
                        /\ tpc' = next
                        /\ UNCHANGED <<rootMalId, returnedAt>>
        ELSE /\ tpc' = next
             /\ UNCHANGED <<info, hasTV, requests, rootMalId, returnedAt,
                            failures>>
  /\ UNCHANGED <<rel, byRootMalId, malId, originalType, visited, currentId,
                 intermediaries, loops>>
  /\ UNCHANGED <<scrapeVars, auxVars>>

MovieCheckParentStory == MovieCheck(ParentStory, "movieParentStory", "movieSequel")
MovieCheckSequel == MovieCheck(Sequel, "movieSequel", "moviePrequel")
MovieCheckPrequel == MovieCheck(Prequel, "moviePrequel", "movieDecide")

\* if (!hasTVParentStory && !hasTVSequel && !hasTVPrequel) return currentId
MovieDecide ==
  /\ tpc = "movieDecide"
  /\ IF Standalone
     THEN Return(currentId, "standalone")
     ELSE /\ tpc' = "select"
          /\ UNCHANGED <<rootMalId, returnedAt>>
  /\ UNCHANGED <<rel, info, byRootMalId, malId, originalType, visited,
                 currentId, hasTV, intermediaries, requests, loops, failures>>
  /\ UNCHANGED <<scrapeVars, auxVars>>

\* The parent the loop picks at the current node: 0 when there is none.
SelectedParent(relations) ==
  LET i == FindRelation(relations, ParentKinds)
  IN IF i = 0 \/ Len(relations[i].entry) = 0 THEN 0
     ELSE relations[i].entry[1]

\* From the parentRelation find to the end of the while body.
TraceSelect ==
  /\ tpc = "select"
  /\ LET parentId == SelectedParent(rel[currentId])
     IN IF parentId = 0
        THEN /\ Return(currentId, "noParent")
             /\ UNCHANGED <<info, currentId, intermediaries, requests,
                            failures>>
        ELSE IF KnownRoot(parentId)
        THEN /\ Return(parentId, "knownRoot")
             /\ UNCHANGED <<info, currentId, intermediaries, requests,
                            failures>>
        ELSE /\ intermediaries' = IF IsIntermediary
                                  THEN Append(intermediaries, currentId)
                                  ELSE intermediaries
             /\ requests' = Append(requests, AnimeRequest(parentId))
             /\ \/ /\ Fails
                   /\ Return(currentId, "catch")
                   /\ UNCHANGED <<info, currentId>>
                \/ \E parentAnime \in AnimeAnswers(parentId) :
                     /\ UNCHANGED failures
                     /\ info' = (parentId :> parentAnime) @@ info
                     /\ IF IsMultiEpisodeTV(parentAnime)
                        THEN /\ currentId' = parentId
                             /\ tpc' = "loop"
                             /\ UNCHANGED <<rootMalId, returnedAt>>
                        ELSE /\ Return(currentId, "parentNotTV")
                             /\ UNCHANGED currentId
  /\ UNCHANGED <<rel, byRootMalId, malId, originalType, visited, hasTV, loops>>
  /\ UNCHANGED <<scrapeVars, auxVars>>

NoRelations == [n \in {} |-> <<>>]
NoInfo == [n \in {} |-> [type |-> "TV", episodes |-> 1]]
NoTV == [k \in {ParentStory, Sequel, Prequel} |-> FALSE]

\* A call traceToRootSeries(malId, originalType, announced, ...), for every
\* declared type and every set of known roots.  Ids are only ever compared
\* for equality, so the starting id is taken to be 1.
TraceInit ==
  /\ rel = NoRelations
  /\ info = NoInfo
  /\ byRootMalId \in SUBSET Nodes
  /\ malId = 1
  /\ originalType \in DeclaredTypes
  /\ visited = {}
  /\ currentId = malId
  /\ hasTV = NoTV
  /\ intermediaries = <<>>
  /\ tpc = "loop"
  /\ rootMalId = 0
  /\ returnedAt = "none"
  /\ requests = <<>>
  /\ loops = 0
  /\ failures = 0

TraceNext ==
  \/ TraceLoop
  \/ MovieCheckParentStory
  \/ MovieCheckSequel
  \/ MovieCheckPrequel
  \/ MovieDecide
  \/ TraceSelect

\* ===================================================== the scrape passes
\* ------------------------------------------------------------------ bounds
MaxItems == 2        \* items on the watchlists, all together
MaxPasses == 2       \* refreshData passes begun with no other in progress
MaxOverlap == 1      \* refreshData passes begun while others are in progress
PageSize == 1        \* items on one listing page

\* config.letterboxd and config.myanimelist
LetterboxdUsers == lbUsers
MyAnimeListUsers == <<"ann">>

\* The sequences over S of length at most k.
SeqsUpTo(S, k) == UNION { [1..n -> S] : n \in 0..k }

Range(s) == {s[i] : i \in 1..Len(s)}

\* ---------------------------------------------------- the upstream, fixed
\* The catalogue the scrape passes run against: anime 1 is a TV series,
\* every later anime names its predecessor as Prequel, and the last one is
\* a movie.
SeriesRelations ==
  [n \in Nodes |->
     IF n = 1 THEN <<>>
     ELSE <<[relation |-> Prequel, entry |-> <<n - 1>>]>>]

SeriesInfo ==
  [n \in Nodes |->
     IF n = NumNodes THEN [type |-> "Movie", episodes |-> 1]
     ELSE [type |-> "TV", episodes |-> 12]]

\* title_english || title, and the year of aired.from, of /anime/{id}.
AnimeTitle(id) == <<"Anime", ToString(id)>>
AnimeYear(id) == 2000 + id

\* idLookup.getIdsFromMal: series 1 has a tv-database id, the movie a
\* movie-database id, the other anime have no mapping.
NoIds == [tmdb |-> "", tvdb |-> "", isAnime |-> FALSE]

MalLookup(id) ==
  IF id = 1 THEN [tmdb |-> "", tvdb |-> "100", isAnime |-> TRUE]
  ELSE IF id = NumNodes THEN [tmdb |-> "7", tvdb |-> "", isAnime |-> TRUE]
  ELSE NoIds

\* A Letterboxd watchlist item after its data-item-name has been parsed.
\* akira is the movie of the catalogue (movie-database id 7).
Films ==
  { [slug |-> "akira", title |-> <<"Akira", " ">>, year |-> 1988],
    [slug |-> "dune", title |-> <<"Dune">>, year |-> 2021] }

\* idLookup.getIdsFromLetterboxd: dune is mapped, akira is not.
LetterboxdLookup(slug) ==
  IF slug = "dune" THEN [tmdb |-> "8", tvdb |-> "", isAnime |-> FALSE]
  ELSE NoIds

\* The film page: its themoviedb.org link and whether it links to
\* myanimelist.net or anidb.net.
FilmPage(slug) ==
  IF slug = "akira" THEN [tmdb |-> "7", anime |-> TRUE]
  ELSE [tmdb |-> "8", anime |-> FALSE]

\* A MyAnimeList listing item { status, anime_id }: any anime as plan to
\* watch (6), and anime 1 as watching (1).
MalItems ==
  {[anime_id |-> n, status |-> 6] : n \in Nodes}
    \cup {[anime_id |-> 1, status |-> 1]}

\* ------------------------------------------------------------ the ledger
\* A string built from parts is the sequence of its parts.
TmdbKey(id) == <<"tmdb", ":", id>>
TvdbKey(id) == <<"tvdb", ":", id>>
TitleKey(title, year, source, username) ==
  title \o <<":", ToString(year), ":", source, ":", username>>

\* getEntryKey
getEntryKey(e) ==
  IF e.tmdb # "" THEN TmdbKey(e.tmdb)
  ELSE IF e.tvdb # "" THEN TvdbKey(e.tvdb)
  ELSE TitleKey(e.title, e.year, e.source, e.username)

\* `letterboxd:${slug}:${year}`
SlugKey(slug, year) == <<"letterboxd", ":", slug, ":", ToString(year)>>

\* title.trim(): the title without the white space at its ends.
Trim(title) ==
  LET inked == {i \in 1..Len(title) : title[i] # " "}
  IN IF inked = {} THEN <<>>
     ELSE SubSeq(title, CHOOSE i \in inked : \A j \in inked : i <= j,
                        CHOOSE i \in inked : \A j \in inked : i >= j)

\* An entryKey made of the title as it was scraped.
UntrimmedEntryKey(tmdbId, tvdbId, title, year, username) ==
  IF tmdbId # "" THEN TmdbKey(tmdbId)
  ELSE IF tvdbId # "" THEN TvdbKey(tvdbId)
  ELSE TitleKey(title, year, "letterboxd", username)

\* The entryKey of the Letterboxd adapter.
LetterboxdEntryKey(tmdbId, tvdbId, title, year, username) ==
  IF tmdbId # "" THEN TmdbKey(tmdbId)
  ELSE IF tvdbId # "" THEN TvdbKey(tvdbId)
  ELSE TitleKey(Trim(title), year, "letterboxd", username)

NoEntry ==
  [tmdb |-> "", tvdb |-> "", title |-> <<>>, year |-> 0, type |-> "",
   source |-> "", username |-> "", anime |-> FALSE, malId |-> 0,
   rootMalId |-> 0, episodes |-> 0, letterboxdSlug |-> ""]

\* AnnouncedEntrySchema.parse({...entry, timestamp}): the runtime-only
\* field episodes is not part of the schema and is dropped.
AnnouncedEntry(e) ==
  [tmdb |-> e.tmdb, tvdb |-> e.tvdb, title |-> e.title, year |-> e.year,
   type |-> e.type, source |-> e.source, username |-> e.username,
   anime |-> e.anime, malId |-> e.malId, rootMalId |-> e.rootMalId,
   letterboxdSlug |-> e.letterboxdSlug]

\* ANNOUNCED_FILE is in DATA_DIR; the stubs go to "announced.jsonl" of the
\* working directory.
Dirs == {".", "/data"}
AnnouncedDir == dataDir
StubDir == "."

\* ------------------------------------------------------- parseNdjsonFile
\* A line of a log file is the object its JSON text encodes, as a record
\* of the fields present, or [text |-> t] when the text t is not JSON.
NotJson(line) == "text" \in DOMAIN line

\* !line.trim()
IsBlank(line) == NotJson(line) /\ line.text \in {"", " "}

\* The value of an optional field, or what stands for undefined.
Optional(obj, field, undefined) ==
  IF field \in DOMAIN obj THEN obj[field] ELSE undefined

\* AnnouncedEntrySchema accepts the object.
SchemaAccepts(obj) ==
  /\ {"title", "year", "type", "source", "username", "anime"}
       \subseteq DOMAIN obj
  /\ obj.year > 0
  /\ obj.type \in {"movie", "tv"}
  /\ obj.source \in {"letterboxd", "myanimelist"}
  /\ obj.anime \in BOOLEAN

\* parser(JSON.parse(line)) throws.
ParseThrows(line) == NotJson(line) \/ ~SchemaAccepts(line)

\* What AnnouncedEntrySchema.parse returns: the fields of the schema, an
\* optional field that is absent is undefined, other fields are dropped.
ParseAnnouncedEntry(obj) ==
  [tmdb |-> Optional(obj, "tmdb", ""), tvdb |-> Optional(obj, "tvdb", ""),
   title |-> obj.title, year |-> obj.year, type |-> obj.type,
   source |-> obj.source, username |-> obj.username, anime |-> obj.anime,
   malId |-> Optional(obj, "malId", 0),
   rootMalId |-> Optional(obj, "rootMalId", 0),
   letterboxdSlug |-> Optional(obj, "letterboxdSlug", "")]

\* The loop over the lines; the catch block inside it warns and the loop
\* goes on with the next line.
RECURSIVE ParseLines(_, _)

LoadAborted(lines, results) == <<>>

LineSkipped(lines, results) == ParseLines(Tail(lines), results)

ParseLines(lines, results) ==
  IF lines = <<>> THEN results
  ELSE LET line == Head(lines)
       IN IF IsBlank(line) THEN ParseLines(Tail(lines), results)
          ELSE IF ParseThrows(line) THEN LineSkipped(lines, results)
          ELSE ParseLines(Tail(lines),
                          Append(results, ParseAnnouncedEntry(line)))

\* parseNdjsonFile(ANNOUNCED_FILE, AnnouncedEntrySchema.parse): a file that
\* does not exist has no lines; when the file cannot be read the outer
\* catch block returns [].
ParseNdjsonFile(lines) ==
  IF ~readable THEN <<>> ELSE ParseLines(lines, <<>>)

\* loadAnnouncedEntries, from the lines of ANNOUNCED_FILE.
LoadAnnouncedEntries(lines) ==
  LET entries == Range(ParseNdjsonFile(lines))
  IN [byKey |->
        {getEntryKey(e) : e \in entries} \cup
        {SlugKey(e.letterboxdSlug, e.year) :
           e \in {x \in entries :
                    x.source = "letterboxd" /\ x.letterboxdSlug # ""}},
      byMalId |-> {e.malId : e \in {x \in entries : x.malId # 0}},
      byRootMalId |->
        {e.rootMalId : e \in {x \in entries : x.rootMalId # 0}}]

\* The merge of refreshData: new entries whose key is not yet present.
RECURSIVE MergeEntries(_, _)
MergeEntries(all, new) ==
  IF new = <<>> THEN all
  ELSE LET e == Head(new)
       IN IF getEntryKey(e) \in {getEntryKey(x) : x \in Range(all)}
          THEN MergeEntries(all, Tail(new))
          ELSE MergeEntries(Append(all, e), Tail(new))

\* What the ledger knows: the in-memory indices together with what loading
\* the log would give.
LedgerKeys == byKey \cup LoadAnnouncedEntries(disk[AnnouncedDir]).byKey
LedgerMalIds == byMalId \cup LoadAnnouncedEntries(disk[AnnouncedDir]).byMalId

\* The ledger of the running pass, the log files and the lists of entries.
Ledger ==
  [byKey |-> byKey, byMalId |-> byMalId, byRootMalId |-> byRootMalId,
   disk |-> disk, newEntries |-> newEntries, allEntries |-> allEntries]

NoSnapshot == [none |-> TRUE]

\* ------------------------------------------------------- listing pages
Min(a, b) == IF a <= b THEN a ELSE b

\* Page number p (from 1) of a Letterboxd watchlist, and whether it has a
\* pagination link to a next page.
LetterboxdPage(list, p) ==
  SubSeq(list, (p - 1) * PageSize + 1, Min(p * PageSize, Len(list)))

HasNextPage(list, p) == p * PageSize < Len(list)

\* load.json?offset=o of a MyAnimeList list.
MalPage(list, o) == SubSeq(list, o + 1, Min(o + PageSize, Len(list)))

\* ---------------------------------------------------------- scrapeSource
\* The locals of a finished trace and of a finished item go out of scope.
TraceReset ==
  /\ malId' = 0
  /\ originalType' = ""
  /\ visited' = {}
  /\ currentId' = 0
  /\ hasTV' = NoTV
  /\ intermediaries' = <<>>
  /\ tpc' = "idle"
  /\ rootMalId' = 0
  /\ returnedAt' = "none"
  /\ requests' = <<>>
  /\ loops' = 0

\* scrapeSource moves to username number u of MyAnimeList, or returns.
StartMalUser(u) ==
  /\ items' = <<>>
  /\ itemIdx' = 0
  /\ page' = 0
  /\ IF u <= Len(MyAnimeListUsers)
     THEN /\ user' = u
          /\ spc' = "malPage"
          /\ started' = started \cup {<<"myanimelist", MyAnimeListUsers[u]>>}
     ELSE /\ user' = 0
          /\ spc' = "merge"
          /\ UNCHANGED started

\* A scrapeSource that leaves Letterboxd after its first username.
FirstUserOnly(u) ==
  IF u <= 1
  THEN /\ items' = <<>>
       /\ itemIdx' = 0
       /\ page' = 1
       /\ user' = u
       /\ spc' = "lbPage"
       /\ started' = started \cup {<<"letterboxd", LetterboxdUsers[u]>>}
  ELSE StartMalUser(1)

\* scrapeSource moves to username number u of Letterboxd, or returns and
\* the MyAnimeList scrapeSource begins.
StartLetterboxdUser(u) ==
  IF u <= Len(LetterboxdUsers)
  THEN /\ items' = <<>>
       /\ itemIdx' = 0
       /\ page' = 1
       /\ user' = u
       /\ spc' = "lbPage"
       /\ started' = started \cup {<<"letterboxd", LetterboxdUsers[u]>>}
  ELSE StartMalUser(1)

\* refreshData up to the first scrape: the ledger is loaded from the log.
RefreshData ==
  /\ spc = "idle"
  /\ mpc \in {"start", "serving"}
  /\ mpc' = IF mpc = "start" THEN "initial" ELSE mpc
  /\ pass < MaxPasses + Len(suspended)
  /\ pass' = pass + 1
  /\ LET announced == LoadAnnouncedEntries(disk[AnnouncedDir])
     IN /\ byKey' = announced.byKey
        /\ byMalId' = announced.byMalId
        /\ byRootMalId' = announced.byRootMalId
  /\ newEntries' = <<>>
  /\ StartLetterboxdUser(1)
  /\ UNCHANGED <<rel, info, traceVars, failures, lbList, malList, dataDir,
                 disk, allEntries, callbacks, entry, interIdx, itemKnown>>
  /\ UNCHANGED <<notified, restarts, itemStart, existingContent, suspended, auxVars>>

\* main, after the initial refreshData has returned: createServer and
\* setInterval.
SetInterval ==
  /\ mpc = "initial"
  /\ spc = "idle"
  /\ mpc' = "serving"
  /\ UNCHANGED <<rel, info, byRootMalId, traceVars, failures, lbList,
                 malList, dataDir, disk, byKey, byMalId, allEntries,
                 callbacks, pass, spc, user, page, items, itemIdx, entry,
                 newEntries, interIdx, itemKnown, notified, restarts,
                 itemStart, existingContent, started, suspended, auxVars>>

\* ---------------------------------------------- scrapeLetterboxdWatchlist
\* The scraper of a Letterboxd username rejects: the catch block of
\* scrapeSource reports it and the loop goes on with the next username.
ScrapeSourceStops == StartMalUser(1)

ScrapeFailed == StartLetterboxdUser(user + 1)

\* The request for a watchlist page; when it fails the scrape of this
\* username fails and scrapeSource goes on.
LetterboxdFetchPage ==
  /\ spc = "lbPage"
  /\ \/ Fails /\ ScrapeFailed
     \/ /\ UNCHANGED failures
        /\ items' = LetterboxdPage(lbList[LetterboxdUsers[user]], page)
        /\ itemIdx' = 1
        /\ spc' = "lbItem"
        /\ UNCHANGED <<user, page, started>>
  /\ UNCHANGED <<rel, info, byRootMalId, traceVars, lbList, malList, dataDir,
                 disk, byKey, byMalId, allEntries, callbacks, pass, entry,
                 newEntries, interIdx, itemKnown>>
  /\ UNCHANGED <<notified, itemStart, existingContent, quietVars, auxVars>>

\* The first ledger check of an item: the slug key.
KnownSlug(slugKey) == slugKey \in byKey

\* The ledger check against the final key.
KnownKey(entryKey) == entryKey \in byKey

\* One film of the page, up to the invocation of the callback.  The poster
\* request changes imageUrl only, whatever its outcome.
LetterboxdItem ==
  /\ spc = "lbItem"
  /\ itemIdx <= Len(items)
  /\ LET film == items[itemIdx]
         username == LetterboxdUsers[user]
         slugKey == SlugKey(film.slug, film.year)
         ids == LetterboxdLookup(film.slug)
         needsPage == ids.tmdb = "" \/ ~ids.isAnime
     IN /\ itemKnown' = (slugKey \in LedgerKeys)
        /\ IF KnownSlug(slugKey)
           THEN /\ itemIdx' = itemIdx + 1
                /\ UNCHANGED <<byKey, callbacks, entry, spc, failures,
                               itemStart, existingContent>>
           ELSE \E pageLoaded \in (IF needsPage THEN BOOLEAN ELSE {FALSE}) :
                  LET tmdbId == IF ids.tmdb = "" /\ pageLoaded
                                THEN FilmPage(film.slug).tmdb ELSE ids.tmdb
                      isAnime == ids.isAnime
                                   \/ (pageLoaded /\ FilmPage(film.slug).anime)
                      e == [tmdb |-> tmdbId, tvdb |-> ids.tvdb,
                            title |-> Trim(film.title), year |-> film.year,
                            type |-> "movie", source |-> "letterboxd",
                            username |-> username, anime |-> isAnime,
                            malId |-> 0, rootMalId |-> 0, episodes |-> 0,
                            letterboxdSlug |-> film.slug]
                      entryKey == LetterboxdEntryKey(tmdbId, ids.tvdb,
                                    film.title, film.year, username)
                  IN /\ IF needsPage /\ ~pageLoaded
                        THEN Fails ELSE UNCHANGED failures
                     /\ IF KnownKey(entryKey)
                        THEN /\ byKey' = byKey \cup {slugKey}
                             /\ itemIdx' = itemIdx + 1
                             /\ UNCHANGED <<callbacks, entry, spc,
                                            itemStart, existingContent>>
                        ELSE /\ callbacks' = Append(callbacks,
                                  [entry |-> e,
                                   keyKnown |-> getEntryKey(e) \in byKey])
                             /\ entry' = e
                             /\ spc' = "append"
                             /\ itemStart' = Ledger
                             /\ existingContent' = disk[AnnouncedDir]
                             /\ UNCHANGED <<byKey, itemIdx>>
  /\ UNCHANGED <<rel, info, byRootMalId, traceVars, lbList, malList, dataDir,
                 disk, byMalId, allEntries, pass, user, page, items,
                 newEntries, interIdx>>
  /\ UNCHANGED <<notified, started, quietVars, auxVars>>

\* A scraper that stops after the first page whatever links it has.
FirstPageOnly ==
  /\ spc = "lbItem"
  /\ itemIdx > Len(items)
  /\ StartLetterboxdUser(user + 1)
  /\ UNCHANGED <<rel, info, byRootMalId, traceVars, failures, lbList, malList, dataDir,
                 disk, byKey, byMalId, allEntries, callbacks, pass, entry,
                 newEntries, interIdx, itemKnown>>
  /\ UNCHANGED <<notified, itemStart, existingContent, quietVars, auxVars>>

\* After the last film of a page: the next page if there is a link to it.
LetterboxdPageDone ==
  /\ spc = "lbItem"
  /\ itemIdx > Len(items)
  /\ IF HasNextPage(lbList[LetterboxdUsers[user]], page)
     THEN /\ page' = page + 1
          /\ spc' = "lbPage"
          /\ items' = <<>>
          /\ itemIdx' = 0
          /\ UNCHANGED <<user, started>>
     ELSE StartLetterboxdUser(user + 1)
  /\ UNCHANGED <<rel, info, byRootMalId, traceVars, failures, lbList, malList, dataDir,
                 disk, byKey, byMalId, allEntries, callbacks, pass, entry,
                 newEntries, interIdx, itemKnown>>
  /\ UNCHANGED <<notified, itemStart, existingContent, quietVars, auxVars>>

\* ------------------------------------------------------------ the callback
\* The item catch block of the adapter that made entry: on to the next item.
ItemRetried ==
  /\ itemIdx' = itemIdx
  /\ entry' = NoEntry
  /\ interIdx' = 0
  /\ itemStart' = NoSnapshot
  /\ existingContent' = <<>>
  /\ IF entry.source = "letterboxd"
     THEN spc' = "lbItem" /\ UNCHANGED traceVars
     ELSE spc' = "malItem" /\ TraceReset

ItemFailed ==
  /\ itemIdx' = itemIdx + 1
  /\ entry' = NoEntry
  /\ interIdx' = 0
  /\ itemStart' = NoSnapshot
  /\ existingContent' = <<>>
  /\ IF entry.source = "letterboxd"
     THEN spc' = "lbItem" /\ UNCHANGED traceVars
     ELSE spc' = "malItem" /\ TraceReset

\* A processEntry that marks the entry in the indices before it appends
\* the line, so that a failed append leaves the marks behind.
MarkedBeforeAppend ==
  /\ spc = "append"
  /\ \/ /\ disk' = [disk EXCEPT
                      ![AnnouncedDir] =
                        Append(existingContent, AnnouncedEntry(entry))]
        /\ spc' = "notify"
        /\ existingContent' = <<>>
        /\ UNCHANGED <<traceVars, failures, itemIdx, entry, interIdx,
                       itemStart, byKey, byMalId>>
     \/ /\ Fails
        /\ ItemFailed
        /\ byKey' = byKey \cup {getEntryKey(entry)}
        /\ byMalId' =
             byMalId \cup (IF entry.malId # 0 THEN {entry.malId} ELSE {})
        /\ UNCHANGED disk
  /\ UNCHANGED <<rel, info, byRootMalId, lbList, malList, dataDir,
                 allEntries, callbacks, pass, user, page, items,
                 newEntries, itemKnown>>
  /\ UNCHANGED <<notified, started, quietVars, auxVars>>

\* processEntry, first await: appendAnnouncedEntry has read the log (when
\* the callback was invoked) and now writes that text back with the new
\* line; a write that fails throws.
AppendAnnouncedEntry ==
  /\ spc = "append"
  /\ \/ /\ disk' = [disk EXCEPT
                      ![AnnouncedDir] =
                        Append(existingContent, AnnouncedEntry(entry))]
        /\ spc' = "notify"
        /\ existingContent' = <<>>
        /\ UNCHANGED <<traceVars, failures, itemIdx, entry, interIdx,
                       itemStart>>
     \/ /\ Fails
        /\ ItemFailed
        /\ UNCHANGED disk
  /\ UNCHANGED <<rel, info, byRootMalId, lbList, malList, dataDir, byKey,
                 byMalId, allEntries, callbacks, pass, user, page, items,
                 newEntries, itemKnown>>
  /\ UNCHANGED <<notified, started, quietVars, auxVars>>

\* sendDiscordWebhook: the post is made, or it fails and the failure is
\* logged and swallowed.
DiscordWebhook ==
  \/ /\ notified' = notified \cup {AnnouncedEntry(entry)}
     /\ UNCHANGED failures
  \/ /\ Fails
     /\ UNCHANGED notified

\* processEntry from sendDiscordNotification (which never throws) on, the
\* rest of the scrapeSource callback, and what the adapter does when the
\* callback has returned: Letterboxd marks both keys and goes to the next
\* film, MyAnimeList begins the loop over the intermediaries.
SendDiscordNotification ==
  /\ spc = "notify"
  /\ DiscordWebhook
  /\ newEntries' = Append(newEntries, entry)
  /\ byMalId' = byMalId \cup (IF entry.malId # 0 THEN {entry.malId} ELSE {})
  /\ byRootMalId' =
       byRootMalId \cup (IF entry.rootMalId # 0 THEN {entry.rootMalId} ELSE {})
  /\ IF entry.source = "letterboxd"
     THEN /\ byKey' = byKey \cup
               { getEntryKey(entry),
                 LetterboxdEntryKey(entry.tmdb, entry.tvdb, entry.title,
                                    entry.year, entry.username),
                 SlugKey(entry.letterboxdSlug, entry.year) }
          /\ itemIdx' = itemIdx + 1
          /\ spc' = "lbItem"
          /\ itemStart' = NoSnapshot
          /\ existingContent' = <<>>
          /\ UNCHANGED interIdx
     ELSE /\ byKey' = byKey \cup {getEntryKey(entry)}
          /\ interIdx' = 1
          /\ spc' = "malStubs"
          /\ UNCHANGED <<itemIdx, itemStart, existingContent>>
  /\ entry' = NoEntry
  /\ UNCHANGED <<rel, info, traceVars, lbList, malList, dataDir,
                 disk, allEntries, callbacks, pass, user, page, items,
                 itemKnown>>
  /\ UNCHANGED <<started, quietVars, auxVars>>

\* -------------------------------------------- scrapeMyAnimeListWatchlist
\* The request for a listing page at the current offset; when it fails (or
\* the answer does not parse) the scrape of this username fails; an empty
\* page ends it.
MalFetchPage ==
  /\ spc = "malPage"
  /\ \/ Fails /\ StartMalUser(user + 1)
     \/ LET malEntries == MalPage(malList[MyAnimeListUsers[user]], page)
        IN /\ UNCHANGED failures
           /\ IF Len(malEntries) = 0
              THEN StartMalUser(user + 1)
              ELSE /\ items' = malEntries
                   /\ itemIdx' = 1
                   /\ spc' = "malItem"
                   /\ UNCHANGED <<user, page, started>>
  /\ UNCHANGED <<rel, info, byRootMalId, traceVars, lbList, malList, dataDir,
                 disk, byKey, byMalId, allEntries, callbacks, pass, entry,
                 newEntries, interIdx, itemKnown>>
  /\ UNCHANGED <<notified, itemStart, existingContent, quietVars, auxVars>>

\* announced.byMalId.has(malEntry.anime_id)
NoKnownMalId(id) == FALSE

KnownMalId(id) == id \in byMalId

\* A filter that lets every status through.
AnyStatus(malEntry) == TRUE

\* malEntry.status === 6: plan to watch.
PlanToWatch(malEntry) == malEntry.status = 6

\* One item of the page, up to the call of traceToRootSeries.
MalItem ==
  /\ spc = "malItem"
  /\ itemIdx <= Len(items)
  /\ LET malEntry == items[itemIdx]
     IN /\ itemKnown' = (malEntry.anime_id \in LedgerMalIds)
        /\ IF ~PlanToWatch(malEntry) \/ KnownMalId(malEntry.anime_id)
           THEN /\ itemIdx' = itemIdx + 1
                /\ UNCHANGED <<info, traceVars, spc, failures, itemStart, existingContent>>
           ELSE \/ \* the detail request fails: the item catch block
                   /\ Fails
                   /\ itemIdx' = itemIdx + 1
                   /\ UNCHANGED <<info, traceVars, spc, itemStart, existingContent>>
                \/ \E anime \in AnimeAnswers(malEntry.anime_id) :
                     /\ UNCHANGED failures
                     /\ info' = (malEntry.anime_id :> anime) @@ info
                     /\ malId' = malEntry.anime_id
                     /\ originalType' = anime.type
                     /\ visited' = {}
                     /\ currentId' = malEntry.anime_id
                     /\ hasTV' = NoTV
                     /\ intermediaries' = <<>>
                     /\ tpc' = "loop"
                     /\ rootMalId' = 0
                     /\ returnedAt' = "none"
                     /\ requests' = <<>>
                     /\ loops' = 0
                     /\ spc' = "malTrace"
                     /\ itemStart' = Ledger
                     /\ UNCHANGED existingContent
                     /\ UNCHANGED itemIdx
  /\ UNCHANGED <<rel, byRootMalId, lbList, malList, dataDir, disk, byKey,
                 byMalId, allEntries, callbacks, pass, user, page, items,
                 entry, newEntries, interIdx>>
  /\ UNCHANGED <<notified, started, quietVars, auxVars>>

\* After the last item of a page: the offset advances by the page length.
MalPageDone ==
  /\ spc = "malItem"
  /\ itemIdx > Len(items)
  /\ page' = page + Len(items)
  /\ spc' = "malPage"
  /\ items' = <<>>
  /\ itemIdx' = 0
  /\ UNCHANGED <<rel, info, byRootMalId, traceVars, failures, lbList, malList, dataDir,
                 disk, byKey, byMalId, allEntries, callbacks, pass, user,
                 entry, newEntries, interIdx, itemKnown>>
  /\ UNCHANGED <<notified, itemStart, existingContent, started, quietVars, auxVars>>

\* The entry the adapter builds for a listing item resolved to root.
MalMediaEntry(malEntry, root, rootAnime, username) ==
  LET ids == MalLookup(root)
      tracedToTV == root # malEntry.anime_id /\ rootAnime.type = "TV"
      isRootMovie ==
        ~tracedToTV /\ (rootAnime.type = "Movie"
                         \/ (rootAnime.episodes = 1 /\ rootAnime.type # "TV"))
      mediaType == IF isRootMovie THEN "movie" ELSE "tv"
  IN [tmdb |-> ids.tmdb, tvdb |-> ids.tvdb,
      title |-> AnimeTitle(root), year |-> AnimeYear(root),
      type |-> mediaType, source |-> "myanimelist", username |-> username,
      anime |-> TRUE, malId |-> malEntry.anime_id,
      rootMalId |-> IF root # malEntry.anime_id THEN root ELSE 0,
      episodes |-> IF mediaType = "tv" THEN rootAnime.episodes ELSE 0,
      letterboxdSlug |-> ""]

\* announced.byRootMalId.has(rootMalId), after the trace.
KnownRootAfterTrace == rootMalId \in byRootMalId

\* While spc is "malTrace" the adapter awaits traceToRootSeries: the steps
\* are those of the tracer.
\* From the return of traceToRootSeries to the invocation of the callback.
MalAfterTrace ==
  /\ spc = "malTrace"
  /\ tpc = "done"
  /\ LET malEntry == items[itemIdx]
         username == MyAnimeListUsers[user]
     IN IF KnownRootAfterTrace
        THEN /\ byMalId' = byMalId \cup {malEntry.anime_id}
                             \cup Range(intermediaries)
             /\ itemIdx' = itemIdx + 1
             /\ spc' = "malItem"
             /\ TraceReset
             /\ itemStart' = NoSnapshot
             /\ existingContent' = <<>>
             /\ UNCHANGED <<info, callbacks, entry, failures>>
        ELSE \/ \* the request for the root's details fails
                /\ rootMalId # malEntry.anime_id
                /\ Fails
                /\ itemIdx' = itemIdx + 1
                /\ spc' = "malItem"
                /\ TraceReset
                /\ itemStart' = NoSnapshot
                /\ existingContent' = <<>>
                /\ UNCHANGED <<info, byMalId, callbacks, entry>>
             \/ \E rootAnime \in AnimeAnswers(rootMalId) :
                  LET e == MalMediaEntry(malEntry, rootMalId, rootAnime,
                                         username)
                  IN /\ info' = (rootMalId :> rootAnime) @@ info
                     /\ UNCHANGED failures
                     /\ IF AnimeYear(rootMalId) = 0
                        THEN /\ itemIdx' = itemIdx + 1
                             /\ spc' = "malItem"
                             /\ TraceReset
                             /\ itemStart' = NoSnapshot
                             /\ existingContent' = <<>>
                             /\ UNCHANGED <<callbacks, entry>>
                        ELSE /\ callbacks' = Append(callbacks,
                                  [entry |-> e,
                                   keyKnown |-> getEntryKey(e) \in byKey])
                             /\ entry' = e
                             /\ spc' = "append"
                             /\ existingContent' = disk[AnnouncedDir]
                             /\ UNCHANGED <<traceVars, itemIdx, itemStart>>
                     /\ UNCHANGED byMalId
  /\ UNCHANGED <<rel, byRootMalId, lbList, malList, dataDir, disk, byKey,
                 allEntries, pass, user, page, items, newEntries, interIdx,
                 itemKnown>>
  /\ UNCHANGED <<notified, started, quietVars, auxVars>>

\* The stub line written for an intermediary.
StubEntry(interId, root, username) ==
  [tmdb |-> "", tvdb |-> "",
   title |-> <<"[Intermediary:", "MAL", ToString(interId), "]">>,
   year |-> 1900, type |-> "tv", source |-> "myanimelist",
   username |-> username, anime |-> TRUE, malId |-> interId,
   rootMalId |-> root, episodes |-> 0, letterboxdSlug |-> ""]

\* One turn of the loop over the intermediaries after the callback, up to
\* the write of the stub line: the intermediary is marked and the log of
\* the working directory is read.
MalStubs ==
  /\ spc = "malStubs"
  /\ IF interIdx > Len(intermediaries)
     THEN /\ itemIdx' = itemIdx + 1
          /\ spc' = "malItem"
          /\ interIdx' = 0
          /\ TraceReset
          /\ itemStart' = NoSnapshot
          /\ existingContent' = <<>>
          /\ UNCHANGED <<byMalId, disk, failures>>
     ELSE LET interId == intermediaries[interIdx]
          IN IF interId \in byMalId
             THEN /\ interIdx' = interIdx + 1
                  /\ UNCHANGED <<traceVars, byMalId, disk, itemIdx, spc,
                                 failures, itemStart, existingContent>>
             ELSE /\ byMalId' = byMalId \cup {interId}
                  /\ existingContent' = disk[StubDir]
                  /\ spc' = "stubWrite"
                  /\ UNCHANGED <<traceVars, disk, itemIdx, interIdx,
                                 failures, itemStart>>
  /\ UNCHANGED <<rel, info, byRootMalId, lbList, malList, dataDir, byKey,
                 allEntries, callbacks, pass, user, page, items, entry,
                 newEntries, itemKnown>>
  /\ UNCHANGED <<notified, started, quietVars, auxVars>>

\* A stub loop that hands the stub to the output callback as well.
StubPublished ==
  /\ spc = "stubWrite"
  /\ \/ /\ disk' = [disk EXCEPT ![StubDir] =
                      Append(existingContent, AnnouncedEntry(
                        StubEntry(intermediaries[interIdx], rootMalId,
                                  MyAnimeListUsers[user])))]
        /\ callbacks' = Append(callbacks,
             [entry |-> StubEntry(intermediaries[interIdx], rootMalId,
                                  MyAnimeListUsers[user]),
              keyKnown |-> FALSE])
        /\ interIdx' = interIdx + 1
        /\ spc' = "malStubs"
        /\ existingContent' = <<>>
        /\ UNCHANGED <<traceVars, itemIdx, failures, itemStart>>
     \/ /\ Fails
        /\ itemIdx' = itemIdx + 1
        /\ spc' = "malItem"
        /\ interIdx' = 0
        /\ TraceReset
        /\ itemStart' = NoSnapshot
        /\ existingContent' = <<>>
        /\ UNCHANGED <<disk, callbacks>>
  /\ UNCHANGED <<rel, info, byRootMalId, lbList, malList, dataDir, byKey,
                 byMalId, allEntries, pass, user, page, items,
                 entry, newEntries, itemKnown>>
  /\ UNCHANGED <<notified, started, quietVars, auxVars>>

\* The write of the stub line: the text read is written back with the new
\* line; a write that fails throws into the item catch block.
StubWrite ==
  /\ spc = "stubWrite"
  /\ \/ /\ disk' = [disk EXCEPT ![StubDir] =
                      Append(existingContent, AnnouncedEntry(
                        StubEntry(intermediaries[interIdx], rootMalId,
                                  MyAnimeListUsers[user])))]
        /\ interIdx' = interIdx + 1
        /\ spc' = "malStubs"
        /\ existingContent' = <<>>
        /\ UNCHANGED <<traceVars, itemIdx, failures, itemStart>>
     \/ /\ Fails
        /\ itemIdx' = itemIdx + 1
        /\ spc' = "malItem"
        /\ interIdx' = 0
        /\ TraceReset
        /\ itemStart' = NoSnapshot
        /\ existingContent' = <<>>
        /\ UNCHANGED disk
  /\ UNCHANGED <<rel, info, byRootMalId, lbList, malList, dataDir, byKey,
                 byMalId, allEntries, callbacks, pass, user, page, items,
                 entry, newEntries, itemKnown>>
  /\ UNCHANGED <<notified, started, quietVars, auxVars>>

\* The end of refreshData: the new entries are merged into allEntries.
MergeNewEntries ==
  /\ spc = "merge"
  /\ allEntries' = MergeEntries(allEntries, newEntries)
  /\ newEntries' = <<>>
  /\ spc' = "idle"
  /\ started' = {}
  /\ UNCHANGED <<rel, info, byRootMalId, traceVars, failures, lbList, malList, dataDir,
                 disk, byKey, byMalId, callbacks, pass, user, page, items,
                 itemIdx, entry, interIdx, itemKnown>>
  /\ UNCHANGED <<notified, itemStart, existingContent, quietVars, auxVars>>

\* announcedToMedia: the runtime-only fields come back undefined.
AnnouncedToMedia(a) ==
  [tmdb |-> a.tmdb, tvdb |-> a.tvdb, title |-> a.title, year |-> a.year,
   type |-> a.type, source |-> a.source, username |-> a.username,
   anime |-> a.anime, malId |-> a.malId, rootMalId |-> a.rootMalId,
   episodes |-> 0, letterboxdSlug |-> a.letterboxdSlug]

\* title.startsWith("[Intermediary:")
IsIntermediaryStub(e) == Len(e.title) > 0 /\ e.title[1] = "[Intermediary:"

\* loadAllEntries, from the lines of ANNOUNCED_FILE.
LoadAllEntries(lines) ==
  LET announced == ParseNdjsonFile(lines)
      media == [i \in 1..Len(announced) |-> AnnouncedToMedia(announced[i])]
      Published(e) == ~IsIntermediaryStub(e)
  IN SelectSeq(media, Published)

\* A filter that does not ask for the id.
filterAnyId(type, anime, requireId) ==
  LET Listed(e) == /\ e.type = type
                   /\ e.anime = anime
                   /\ ~IsIntermediaryStub(e)
  IN SelectSeq(allEntries, Listed)

\* filterEntries: the entries of allEntries of one class that carry the
\* required id and are no intermediary stubs.
filterEntries(type, anime, requireId) ==
  LET Listed(e) == /\ e.type = type
                   /\ e.anime = anime
                   /\ e[requireId] # ""
                   /\ ~IsIntermediaryStub(e)
  IN SelectSeq(allEntries, Listed)

\* formatListEntry: title and year, and each id that is present.
formatListEntry(e) ==
  [title |-> e.title, year |-> e.year, tmdbId |-> e.tmdb, tvdbId |-> e.tvdb]

\* The paths of the list endpoints.
ListPaths == {"/radarr/anime", "/radarr/movies", "/sonarr/anime", "/sonarr/shows"}

\* The fetch handler of createServer: the body of the response to a GET of
\* a list endpoint.
Response(pathname) ==
  LET listed ==
        CASE pathname = "/radarr/anime" -> filterEntries("movie", TRUE, "tmdb")
          [] pathname = "/radarr/movies" -> filterEntries("movie", FALSE, "tmdb")
          [] pathname = "/sonarr/anime" -> filterEntries("tv", TRUE, "tvdb")
          [] pathname = "/sonarr/shows" -> filterEntries("tv", FALSE, "tvdb")
  IN [i \in 1..Len(listed) |-> formatListEntry(listed[i])]

\* No refreshData call is running: its locals are gone.
NoLocals ==
  /\ byKey' = {}
  /\ byMalId' = {}
  /\ byRootMalId' = {}
  /\ newEntries' = <<>>
  /\ spc' = "idle"
  /\ user' = 0
  /\ page' = 0
  /\ items' = <<>>
  /\ itemIdx' = 0
  /\ entry' = NoEntry
  /\ interIdx' = 0
  /\ itemKnown' = FALSE
  /\ itemStart' = NoSnapshot
  /\ existingContent' = <<>>
  /\ started' = {}
  /\ TraceReset

\* The process stops, at any point, and is started again: everything in
\* memory is lost, the files stay, and main loads allEntries from the log.
Restart ==
  /\ failures + restarts < MaxFailures
  /\ restarts' = restarts + 1
  /\ mpc' = "start"
  /\ suspended' = <<>>
  /\ allEntries' = LoadAllEntries(disk[AnnouncedDir])
  /\ NoLocals
  /\ UNCHANGED <<rel, info, failures, lbList, malList, dataDir, disk,
                 callbacks, pass, notified, auxVars>>

\* ------------------------------------------------------- the interval timer
\* The locals of the refreshData call that is running, those of the adapter
\* and of the tracer it has called included.
Locals ==
  [byKey |-> byKey, byMalId |-> byMalId, byRootMalId |-> byRootMalId,
   newEntries |-> newEntries, spc |-> spc, user |-> user, page |-> page,
   items |-> items, itemIdx |-> itemIdx, entry |-> entry,
   interIdx |-> interIdx, itemKnown |-> itemKnown, itemStart |-> itemStart,
   existingContent |-> existingContent,
   started |-> started, malId |-> malId, originalType |-> originalType,
   visited |-> visited, currentId |-> currentId, hasTV |-> hasTV,
   intermediaries |-> intermediaries, tpc |-> tpc, rootMalId |-> rootMalId,
   returnedAt |-> returnedAt, requests |-> requests, loops |-> loops]

\* The call whose locals are l goes on.
Resume(l) ==
  /\ byKey' = l.byKey
  /\ byMalId' = l.byMalId
  /\ byRootMalId' = l.byRootMalId
  /\ newEntries' = l.newEntries
  /\ spc' = l.spc
  /\ user' = l.user
  /\ page' = l.page
  /\ items' = l.items
  /\ itemIdx' = l.itemIdx
  /\ entry' = l.entry
  /\ interIdx' = l.interIdx
  /\ itemKnown' = l.itemKnown
  /\ itemStart' = l.itemStart
  /\ existingContent' = l.existingContent
  /\ started' = l.started
  /\ malId' = l.malId
  /\ originalType' = l.originalType
  /\ visited' = l.visited
  /\ currentId' = l.currentId
  /\ hasTV' = l.hasTV
  /\ intermediaries' = l.intermediaries
  /\ tpc' = l.tpc
  /\ rootMalId' = l.rootMalId
  /\ returnedAt' = l.returnedAt
  /\ requests' = l.requests
  /\ loops' = l.loops

\* The number of refreshData calls that have begun and not returned.
InFlight == Len(suspended) + (IF spc = "idle" THEN 0 ELSE 1)

\* The interval elapses while a refreshData call is waiting at an await:
\* setInterval invokes the callback whatever the earlier calls are doing.
\* The call in progress stays suspended at its await; the callback's own
\* refreshData is RefreshData.
TimerFires ==
  /\ mpc = "serving"
  /\ spc # "idle"
  /\ Len(suspended) < MaxOverlap
  /\ suspended' = Append(suspended, Locals)
  /\ NoLocals
  /\ UNCHANGED <<rel, info, failures, lbList, malList, dataDir, disk,
                 allEntries, callbacks, pass, notified, restarts, mpc,
                 auxVars>>

\* The event loop turns to suspended call number i, whose awaited promise
\* has settled; the call that was running waits at its own await, or has
\* returned.
SwitchTo(i) ==
  /\ Resume(suspended[i])
  /\ suspended' =
       IF spc = "idle"
       THEN SubSeq(suspended, 1, i - 1)
              \o SubSeq(suspended, i + 1, Len(suspended))
       ELSE [suspended EXCEPT ![i] = Locals]
  /\ UNCHANGED <<rel, info, failures, lbList, malList, dataDir, disk,
                 allEntries, callbacks, pass, notified, restarts, mpc,
                 auxVars>>

Switch == \E i \in 1..Len(suspended) : SwitchTo(i)

\* ==================================================== the rate limiters
MaxCallers == 3      \* calls of the rate-limited request functions
MaxClock == 1500     \* the clock stops here

\* Date.now() when the first call is made.
StartTime == 1000

\* The steps in which the clock is seen to advance.
ClockSteps == {100, 250}

Letterboxd == "letterboxd"
Jikan == "jikan"
Limiters == {Letterboxd, Jikan}

LETTERBOXD_MIN_DELAY == 200
JIKAN_MIN_DELAY == 350

MinDelay(l) == IF l = Letterboxd THEN LETTERBOXD_MIN_DELAY ELSE JIKAN_MIN_DELAY

Callers == 1..MaxCallers

NoCall == [pc |-> "idle", limiter |-> "", issued |-> 0, wake |-> 0,
           alone |-> FALSE]

\* timeSinceLastRequest < MIN_DELAY
NeverWaits(l) == FALSE

MustWait(l) == now - lastRequest[l] < MinDelay(l)

\* A call of limiter l is under way: it sleeps, or its request is awaited.
Pending(l) ==
  \E c \in Callers : calls[c].limiter = l /\ calls[c].pc \in {"sleeping", "fetching"}

\* lastRequest = Date.now(); return fn()
Dispatch(c, l, issued, alone) ==
  /\ lastRequest' = [lastRequest EXCEPT ![l] = now]
  /\ dispatched' = [dispatched EXCEPT ![l] =
                      Append(@, [at |-> now, issued |-> issued,
                                 alone |-> alone])]

\* rateLimitedRequest (Letterboxd) and jikanRequest, from the call to the
\* setTimeout that is awaited or, when there is no wait, to the request.
\* Call number c is the c-th call made.
LimitedRequest ==
  \E c \in Callers, l \in Limiters :
    /\ calls[c].pc = "idle"
    /\ \A b \in 1..(c - 1) : calls[b].pc # "idle"
    /\ IF MustWait(l)
       THEN /\ calls' = [calls EXCEPT ![c] =
                          [pc |-> "sleeping", limiter |-> l, issued |-> now,
                           wake |-> now + (MinDelay(l) - (now - lastRequest[l])),
                           alone |-> ~Pending(l)]]
            /\ UNCHANGED <<lastRequest, dispatched>>
       ELSE /\ calls' = [calls EXCEPT ![c] =
                          [NoCall EXCEPT !.pc = "fetching", !.limiter = l]]
            /\ Dispatch(c, l, now, ~Pending(l))
    /\ UNCHANGED <<now, retryVars, loadVars, configVars, programVars>>

\* The timeout has elapsed and the call goes on: the request is dispatched.
LimitedRequestWakes ==
  \E c \in Callers :
    /\ calls[c].pc = "sleeping"
    /\ now >= calls[c].wake
    /\ calls' = [calls EXCEPT ![c] =
                   [NoCall EXCEPT !.pc = "fetching",
                                  !.limiter = calls[c].limiter]]
    /\ Dispatch(c, calls[c].limiter, calls[c].issued, calls[c].alone)
    /\ UNCHANGED <<now, retryVars, loadVars, configVars, programVars>>

\* fn() settles and the call returns to its caller.
LimitedRequestReturns ==
  \E c \in Callers :
    /\ calls[c].pc = "fetching"
    /\ calls' = [calls EXCEPT ![c].pc = "done"]
    /\ UNCHANGED <<now, lastRequest, dispatched, retryVars, loadVars,
                   configVars, programVars>>

\* Time passes.
ClockTick ==
  \E d \in ClockSteps :
    /\ now + d <= MaxClock
    /\ now' = now + d
    /\ UNCHANGED <<lastRequest, calls, dispatched, retryVars, loadVars,
                   configVars, programVars>>

LimiterInit ==
  /\ now = StartTime
  /\ lastRequest = [l \in Limiters |-> 0]
  /\ calls = [c \in Callers |-> NoCall]
  /\ dispatched = [l \in Limiters |-> <<>>]

\* ====================================================== the http client
\* retry.limit and retry.statusCodes of httpClient
RetryLimit == 3
RetryStatusCodes == {408, 429, 500, 502, 503, 504}

\* The statuses an upstream answers with: success, statuses that are not
\* retried (404, 403) and the retried ones.
Statuses == {200, 403, 404} \cup RetryStatusCodes

\* The Retry-After header of a response: absent, a number of seconds, or an
\* HTTP date given here by its distance in milliseconds from Date.now().
RetryAfterHeaders ==
  { [form |-> "none", value |-> 0],
    [form |-> "seconds", value |-> 5],
    [form |-> "seconds", value |-> 0],
    [form |-> "date", value |-> 2500],
    [form |-> "date", value |-> -1000] }

\* The responses an upstream gives: Retry-After comes with 429 and 503.
Responses ==
  { [status |-> st, retryAfter |-> h] :
      st \in {429, 503}, h \in RetryAfterHeaders }
    \cup { [status |-> st, retryAfter |-> [form |-> "none", value |-> 0]] :
             st \in Statuses }

\* Math.ceil(a / b) for b > 0
CeilDiv(a, b) == -((-a) \div b)

Max(a, b) == IF a >= b THEN a ELSE b

RECURSIVE Pow2(_)
Pow2(n) == IF n = 0 THEN 1 ELSE 2 * Pow2(n - 1)

\* getRetryAfterSeconds: null, or the number of seconds.
Null == [null |-> TRUE, seconds |-> 0]

getRetryAfterSeconds(header) ==
  IF header.form = "none" THEN Null
  ELSE IF header.form = "seconds"
       THEN [null |-> FALSE, seconds |-> header.value]
       ELSE [null |-> FALSE,
             seconds |-> Max(0, CeilDiv(header.value, 1000))]

\* A hook that takes whatever number Retry-After gives, zero included.
AnyRetryAfter(count, response) ==
  LET backoff == Min(1000 * Pow2(count - 1), 10000)
      isRateLimit == response.status = 429
      retryAfter == getRetryAfterSeconds(response.retryAfter)
  IN IF isRateLimit /\ ~retryAfter.null
     THEN retryAfter.seconds * 1000
     ELSE backoff

\* The delay the beforeRetry hook waits for, in milliseconds.
RetryDelay(count, response) ==
  LET backoff == Min(1000 * Pow2(count - 1), 10000)
      isRateLimit == response.status = 429
      retryAfter == getRetryAfterSeconds(response.retryAfter)
  IN IF isRateLimit /\ ~retryAfter.null /\ retryAfter.seconds > 0
     THEN retryAfter.seconds * 1000
     ELSE backoff

\* ky retries a failed response when its status is in retry.statusCodes and
\* fewer than retry.limit retries were made.
RetryAnyStatus(status, count) == count < RetryLimit

ShouldRetry(status, count) ==
  status \in RetryStatusCodes /\ count < RetryLimit

\* httpClient.get or httpClient.post is called.
HttpRequest ==
  /\ hpc = "idle"
  /\ hpc' = "sent"
  /\ UNCHANGED <<retryCount, responses, delays, limiterVars, loadVars,
                 configVars, programVars>>

\* A response arrives: the promise resolves, or ky begins a retry, or the
\* promise rejects with the HTTP error.
HttpResponse ==
  \E response \in Responses :
    /\ hpc = "sent"
    /\ responses' = Append(responses, response)
    /\ IF response.status = 200
       THEN hpc' = "resolved" /\ UNCHANGED retryCount
       ELSE IF ShouldRetry(response.status, retryCount)
            THEN hpc' = "beforeRetry" /\ retryCount' = retryCount + 1
            ELSE hpc' = "rejected" /\ UNCHANGED retryCount
    /\ UNCHANGED <<delays, limiterVars, loadVars, configVars, programVars>>

\* The beforeRetry hook: it waits for the delay, then ky sends again.
BeforeRetry ==
  /\ hpc = "beforeRetry"
  /\ delays' = Append(delays,
                      RetryDelay(retryCount, responses[Len(responses)]))
  /\ hpc' = "sent"
  /\ UNCHANGED <<retryCount, responses, limiterVars, loadVars, configVars, programVars>>

RetryInit ==
  /\ hpc = "idle"
  /\ retryCount = 0
  /\ responses = <<>>
  /\ delays = <<>>

AuxInit ==
  /\ LimiterInit
  /\ RetryInit
  /\ readable = TRUE

\* The number of items on the watchlists of all usernames of a source.
RECURSIVE SumOfLengths(_, _)
SumOfLengths(lists, users) ==
  IF users = {} THEN 0
  ELSE LET u == CHOOSE x \in users : TRUE
       IN Len(lists[u]) + SumOfLengths(lists, users \ {u})

ListedItems(lists) == SumOfLengths(lists, DOMAIN lists)

\* A fresh installation: no log, one watchlist per username.
\* The state after construction but for the files.
MemoryInit ==
  /\ rel = SeriesRelations
  /\ info = SeriesInfo
  /\ byRootMalId = {}
  /\ malId = 0
  /\ originalType = ""
  /\ visited = {}
  /\ currentId = 0
  /\ hasTV = NoTV
  /\ intermediaries = <<>>
  /\ tpc = "idle"
  /\ rootMalId = 0
  /\ returnedAt = "none"
  /\ requests = <<>>
  /\ loops = 0
  /\ failures = 0
  /\ lbList \in [Range(LetterboxdUsers) -> SeqsUpTo(Films, MaxItems)]
  /\ malList \in [Range(MyAnimeListUsers) -> SeqsUpTo(MalItems, MaxItems)]
  /\ ListedItems(lbList) + ListedItems(malList) <= MaxItems
  /\ dataDir \in Dirs
  /\ byKey = {}
  /\ byMalId = {}
  /\ allEntries = <<>>
  /\ callbacks = <<>>
  /\ pass = 0
  /\ spc = "idle"
  /\ user = 0
  /\ page = 0
  /\ items = <<>>
  /\ itemIdx = 0
  /\ entry = NoEntry
  /\ newEntries = <<>>
  /\ interIdx = 0
  /\ itemKnown = FALSE
  /\ notified = {}
  /\ restarts = 0
  /\ itemStart = NoSnapshot
  /\ existingContent = <<>>
  /\ started = {}
  /\ mpc = "start"
  /\ suspended = <<>>

ScrapeInit ==
  /\ lbUsers = <<"ann">>
  /\ MemoryInit
  /\ disk = [d \in Dirs |-> <<>>]
  /\ AuxInit

ScrapeNext ==
  \/ RefreshData
  \/ SetInterval
  \/ Restart
  \/ LetterboxdFetchPage
  \/ LetterboxdItem
  \/ LetterboxdPageDone
  \/ AppendAnnouncedEntry
  \/ SendDiscordNotification
  \/ MalFetchPage
  \/ MalItem
  \/ MalPageDone
  \/ TraceLoop
  \/ MovieCheckParentStory
  \/ MovieCheckSequel
  \/ MovieCheckPrequel
  \/ MovieDecide
  \/ TraceSelect
  \/ MalAfterTrace
  \/ MalStubs
  \/ StubWrite
  \/ MergeNewEntries

SpecScrape == ScrapeInit /\ [][ScrapeNext]_vars

\* The same passes with two Letterboxd usernames configured.
UsersInit ==
  /\ lbUsers = <<"ann", "bob">>
  /\ MemoryInit
  /\ dataDir = "."
  /\ disk = [d \in Dirs |-> <<>>]
  /\ AuxInit

SpecUsers == UsersInit /\ [][ScrapeNext]_vars

\* The same passes with DATA_DIR unset: the log is in the working directory.
LocalInit == ScrapeInit /\ dataDir = "."

SpecLocal == LocalInit /\ [][ScrapeNext]_vars

\* ------------------------------------- the passes the timer starts
\* The same run when the interval may elapse during a pass.
TimerNext ==
  \/ RefreshData
  \/ SetInterval
  \/ TimerFires
  \/ Switch
  \/ LetterboxdFetchPage
  \/ LetterboxdItem
  \/ LetterboxdPageDone
  \/ AppendAnnouncedEntry
  \/ SendDiscordNotification
  \/ MalFetchPage
  \/ MalItem
  \/ MalPageDone
  \/ TraceLoop
  \/ MovieCheckParentStory
  \/ MovieCheckSequel
  \/ MovieCheckPrequel
  \/ MovieDecide
  \/ TraceSelect
  \/ MalAfterTrace
  \/ MalStubs
  \/ StubWrite
  \/ MergeNewEntries

SpecTimer == ScrapeInit /\ [][TimerNext]_vars

\* -------------------------------------------- the tracer on its own
\* A single call of traceToRootSeries: nothing of the scrape pass moves.
TraceOnlyInit ==
  /\ TraceInit
  /\ lbUsers = <<"ann">>
  /\ lbList = [u \in Range(LetterboxdUsers) |-> <<>>]
  /\ malList = [u \in Range(MyAnimeListUsers) |-> <<>>]
  /\ dataDir = "."
  /\ disk = [d \in Dirs |-> <<>>]
  /\ byKey = {}
  /\ byMalId = {}
  /\ allEntries = <<>>
  /\ callbacks = <<>>
  /\ pass = 0
  /\ spc = "trace"
  /\ user = 0
  /\ page = 0
  /\ items = <<>>
  /\ itemIdx = 0
  /\ entry = NoEntry
  /\ newEntries = <<>>
  /\ interIdx = 0
  /\ itemKnown = FALSE
  /\ notified = {}
  /\ restarts = 0
  /\ itemStart = NoSnapshot
  /\ existingContent = <<>>
  /\ started = {}
  /\ mpc = "start"
  /\ suspended = <<>>
  /\ AuxInit

SpecTrace == TraceOnlyInit /\ [][TraceNext]_vars

\* ------------------------------------------- the specifications apart
\* The program at rest: nothing listed, no pass begun.
IdleProgram ==
  /\ ScrapeInit
  /\ ListedItems(lbList) + ListedItems(malList) = 0
  /\ dataDir = "."

LimiterNext ==
  \/ LimitedRequest
  \/ LimitedRequestWakes
  \/ LimitedRequestReturns
  \/ ClockTick

SpecLimiter == IdleProgram /\ [][LimiterNext]_vars

RetryNext ==
  \/ HttpRequest
  \/ HttpResponse
  \/ BeforeRetry

SpecRetry == IdleProgram /\ [][RetryNext]_vars

\* ------------------------------------------------- the loading of the log
MaxLines == 3        \* lines of announced.jsonl when the process starts

\* Lines a log may hold: two entries as the program writes them (without
\* the optional fields that are undefined), a blank line, the beginning of
\* a line whose write was cut short, and objects the schema rejects: a year
\* that is not positive, a type outside the enumeration, a missing username.
AkiraLine ==
  [title |-> <<"Akira">>, year |-> 1988, type |-> "movie",
   source |-> "letterboxd", username |-> "ann", anime |-> TRUE,
   letterboxdSlug |-> "akira"]

SequelLine ==
  [tvdb |-> "100", title |-> <<"Anime", "2">>, year |-> 2002, type |-> "tv",
   source |-> "myanimelist", username |-> "ann", anime |-> TRUE,
   malId |-> 2, rootMalId |-> 1]

BlankLine == [text |-> ""]

TornLine == [text |-> "{\"title\":\"Aki"]

YearZeroLine ==
  [tmdb |-> "8", title |-> <<"Dune">>, year |-> 0, type |-> "movie",
   source |-> "letterboxd", username |-> "ann", anime |-> FALSE,
   letterboxdSlug |-> "dune"]

OvaLine ==
  [title |-> <<"Anime", "3">>, year |-> 2003, type |-> "ova",
   source |-> "myanimelist", username |-> "ann", anime |-> TRUE,
   malId |-> 3, rootMalId |-> 3]

NoUsernameLine ==
  [tmdb |-> "9", title |-> <<"Heat">>, year |-> 1995, type |-> "movie",
   source |-> "letterboxd", anime |-> FALSE]

LogLines ==
  {AkiraLine, SequelLine, BlankLine, TornLine, YearZeroLine, OvaLine,
   NoUsernameLine}

\* The process starts on a log of any lines, readable or not, and nothing
\* is on the watchlists.
LoadInit ==
  /\ lbUsers = <<"ann">>
  /\ MemoryInit
  /\ ListedItems(lbList) + ListedItems(malList) = 0
  /\ dataDir = "."
  /\ disk \in [Dirs -> SeqsUpTo(LogLines, MaxLines)]
  /\ disk["/data"] = <<>>
  /\ LimiterInit
  /\ RetryInit
  /\ readable \in BOOLEAN

\* refreshData up to the loading of the ledger, and the start of main.
LoadNext ==
  \/ RefreshData
  \/ Restart

SpecLoad == LoadInit /\ [][LoadNext]_vars

\* ================================================================ claims
Done == tpc = "done"

\* Every request of the trace was answered (a failed request ends the trace
\* in the catch block).
AllFetchesSucceeded == returnedAt # "catch"

\* The ids of the relations requests made so far.
RelationsRequested(i) == requests[i].path = "relations"

\* The anime that parent-pointing relations shown by the catalogue lead to
\* from anime a in one step: through any such relation, or only through the
\* one the tracer follows.
AnyParents(a) ==
  IF a \notin DOMAIN rel THEN {}
  ELSE { rel[a][i].entry[1] :
           i \in { k \in 1..Len(rel[a]) :
                     /\ rel[a][k].relation \in ParentKinds
                     /\ Len(rel[a][k].entry) > 0 } }

FollowedParents(a) ==
  IF a \notin DOMAIN rel \/ SelectedParent(rel[a]) = 0 THEN {}
  ELSE {SelectedParent(rel[a])}

\* The anime reached from the set S in one or more steps of Step, where
\* k bounds the number of steps still to be taken.
RECURSIVE Reach(_, _, _, _)
Reach(Step(_), frontier, seen, k) ==
  LET next == UNION {Step(a) : a \in frontier}
  IN IF k = 0 \/ next \subseteq seen THEN seen \cup next
     ELSE Reach(Step, next \ seen, seen \cup next, k - 1)

Descendants(Step(_), a) == Reach(Step, {a}, {}, NumNodes)

OnCycle(Step(_), n) == n \in Descendants(Step, n)

ReachableFrom(Step(_), a) == {a} \cup Descendants(Step, a)

\* C1: the trace terminates: the while body is entered at most once per
\* distinct node visited plus once, no node's relations are requested twice,
\* and a trace that has not returned can always take its next step.
C1_Terminates ==
  /\ loops <= Cardinality(visited) + 1
  /\ Cardinality(visited) <= NumNodes
  /\ \A i, j \in 1..Len(requests) :
       (i # j /\ RelationsRequested(i) /\ RelationsRequested(j))
         => requests[i].id # requests[j].id
  /\ (~Done => ENABLED TraceNext)

\* C1 witness: a walk around a cycle has returned at the visited check.
C1_Witness ==
  Done /\ returnedAt = "visited" /\ Cardinality(visited) >= 2 /\ loops >= 3

\* C2 (as claimed): whenever the catalogue holds a cycle of parent-pointing
\* relations that can be reached from the start node, the returned node is on
\* such a cycle.
C2_ReturnsOnAnyReachableCycle ==
  (Done /\ \E c \in ReachableFrom(AnyParents, malId) : OnCycle(AnyParents, c))
    => (rootMalId \in ReachableFrom(AnyParents, malId)
        /\ OnCycle(AnyParents, rootMalId))

\* C2 (amended): when the relations the tracer follows lead back to a node
\* it has visited, so that the visited check ends the walk, the returned
\* node lies on that cycle of followed relations.
C2_ReturnsOnFollowedCycle ==
  (Done /\ returnedAt = "visited")
    => (rootMalId \in ReachableFrom(FollowedParents, malId)
        /\ OnCycle(FollowedParents, rootMalId))

\* C2 witness: the walk entered a cycle that does not pass through the
\* start node and returned at the visited check.
C2_Witness ==
  Done /\ returnedAt = "visited" /\ ~OnCycle(FollowedParents, malId)

\* The parent chosen by priority Parent Story > Prequel > Full Story, then
\* (movies only) Sequel, whatever the order of the response.
PriorityParent(relations) ==
  LET target(kind) ==
        LET i == FindRelation(relations, {kind})
        IN IF i = 0 \/ Len(relations[i].entry) = 0 THEN 0
           ELSE relations[i].entry[1]
      has(kind) == FindRelation(relations, {kind}) # 0
  IN IF has(ParentStory) THEN target(ParentStory)
     ELSE IF has(Prequel) THEN target(Prequel)
     ELSE IF has(FullStory) THEN target(FullStory)
     ELSE IF isOriginalMovie /\ has(Sequel) THEN target(Sequel)
     ELSE 0

\* C3: whenever the walk advances to a parent, that parent is the target of
\* the highest-priority parent-pointing relation of the node it leaves,
\* independent of the order of the relations response.
C3_FollowsByPriority ==
  [][(/\ tpc = "select"
      /\ tpc' = "loop"
      /\ currentId' # currentId
      /\ PriorityParent(rel[currentId]) \notin {0, currentId})
       => currentId' = PriorityParent(rel[currentId])]_vars

\* The first target of the relation named kind at the start node is known
\* to be a TV anime with more than one episode.
StartTargetIsTV(kind) ==
  /\ malId \in DOMAIN rel
  /\ LET i == FindRelation(rel[malId], {kind})
     IN /\ i # 0
        /\ Len(rel[malId][i].entry) > 0
        /\ rel[malId][i].entry[1] \in DOMAIN info
        /\ IsMultiEpisodeTV(info[rel[malId][i].entry[1]])

\* C4: a Movie none of whose first Parent Story, Sequel and Prequel targets
\* is a multi-episode TV anime is returned as its own root, with no
\* intermediaries, whatever the ledger holds.
C4_StandaloneMovie ==
  (/\ Done
   /\ isOriginalMovie
   /\ ~StartTargetIsTV(ParentStory)
   /\ ~StartTargetIsTV(Sequel)
   /\ ~StartTargetIsTV(Prequel))
    => (rootMalId = malId /\ intermediaries = <<>>)

\* C4 witness: a movie whose only relation is a Full Story pointing at a
\* known root, with all requests answered, has been returned as standalone.
C4_Witness ==
  /\ Done
  /\ isOriginalMovie
  /\ returnedAt = "standalone"
  /\ Len(rel[malId]) = 1
  /\ rel[malId][1].relation = FullStory
  /\ SelectedParent(rel[malId]) \in byRootMalId

\* Every relation of the start node names another anime.
StartRelationsProper ==
  /\ malId \in DOMAIN rel
  /\ \A i \in 1..Len(rel[malId]) :
       Len(rel[malId][i].entry) > 0 /\ rel[malId][i].entry[1] # malId

\* C5: a Movie with a Parent Story relation to a TV anime of 12 episodes is
\* never returned as its own root, whatever else it is related to and in
\* whatever order.  Stated for the traces in which nothing else can bring
\* the walk back to the movie: every request answered, every relation of
\* the movie naming another anime, the movie not a known root, no cycle
\* closed.
C5_MovieUnderTVParentStory ==
  (/\ Done
   /\ isOriginalMovie
   /\ StartTargetIsTV(ParentStory)
   /\ info[PriorityParent(rel[malId])].episodes = 12
   /\ StartRelationsProper
   /\ AllFetchesSucceeded
   /\ returnedAt # "visited"
   /\ malId \notin byRootMalId)
    => rootMalId # malId

\* The requests of the movie special case at the start node: one per
\* relation among Parent Story, Sequel, Prequel that has an entry, in that
\* order.
RECURSIVE MovieCheckRequests(_)
MovieCheckRequests(kinds) ==
  IF kinds = <<>> THEN <<>>
  ELSE LET i == FindRelation(rel[malId], {Head(kinds)})
           rest == MovieCheckRequests(Tail(kinds))
       IN IF i # 0 /\ Len(rel[malId][i].entry) > 0
          THEN <<AnimeRequest(rel[malId][i].entry[1])>> \o rest
          ELSE rest

\* C6 (as claimed): if the parent selected at the start node is a known
\* root, the trace returns it, for every declared type, having made no
\* request beyond the relations request and a single anime request.
\* Stated for the traces in which every request was answered.
C6_KnownParentAnyType ==
  (/\ Done
   /\ AllFetchesSucceeded
   /\ malId \in DOMAIN rel
   /\ SelectedParent(rel[malId]) \in byRootMalId)
    => (/\ rootMalId = SelectedParent(rel[malId])
        /\ Len(requests) <= 2)

\* C6 (amended): if the trace reaches the parent selection at the start node
\* (its relations request was answered and, for a Movie, the movie special
\* case found a multi-episode TV target with every request answered) and the
\* selected parent is a known root, it returns that parent and has made
\* exactly the relations request of the start node followed, for a Movie,
\* by the requests of the movie special case: nothing is requested after
\* the parent is selected.
C6_KnownParentShortCircuit ==
  (/\ Done
   /\ malId \in DOMAIN rel
   /\ SelectedParent(rel[malId]) \in byRootMalId
   /\ returnedAt \notin {"catch", "standalone"})
    => (/\ rootMalId = SelectedParent(rel[malId])
        /\ returnedAt = "knownRoot"
        /\ requests = <<RelationsRequest(malId)>> \o
             (IF isOriginalMovie
              THEN MovieCheckRequests(<<ParentStory, Sequel, Prequel>>)
              ELSE <<>>))

\* C6 witness: a Movie that passed the movie special case was short-circuited
\* to a known root other than itself.
C6_Witness ==
  /\ Done
  /\ isOriginalMovie
  /\ returnedAt = "knownRoot"
  /\ currentId = malId
  /\ rootMalId # malId
  /\ Len(requests) >= 2

\* The trace has returned in a catalogue where the start node has the
\* single relation kind, to parent, and parent is another anime, a
\* multi-episode TV one without relations (nothing the catalogue has shown
\* says otherwise); the ledger knows no root; every request was answered.
Scenario(kind, parent) ==
  /\ Done
  /\ AllFetchesSucceeded
  /\ byRootMalId = {}
  /\ parent # malId
  /\ malId \in DOMAIN rel
  /\ rel[malId] = <<[relation |-> kind, entry |-> <<parent>>]>>
  /\ parent \in DOMAIN info => IsMultiEpisodeTV(info[parent])
  /\ parent \in DOMAIN rel => rel[parent] = <<>>

\* The scenario, with the parent's details and relations both asked for.
ScenarioWalked(kind, parent) ==
  /\ Scenario(kind, parent)
  /\ parent \in DOMAIN info
  /\ parent \in DOMAIN rel

\* C7: Movie M with the single relation Parent Story -> P, P a multi-episode
\* TV anime without relations, empty ledger, all requests answered: the
\* trace returns P and no intermediary.
C7_MovieScenario ==
  \A P \in Nodes :
    (isOriginalMovie /\ Scenario(ParentStory, P))
      => (rootMalId = P /\ intermediaries = <<>>)

\* C7 witness: the scenario has been traced.
C7_Witness ==
  \E P \in Nodes : isOriginalMovie /\ ScenarioWalked(ParentStory, P)

\* C8 (as claimed): non-Movie S with the single relation Prequel -> P, P a
\* multi-episode TV anime without relations, empty ledger, all requests
\* answered: the trace returns P with intermediaries [S].
C8_PrequelScenarioStartIntermediary ==
  \A P \in Nodes :
    (~isOriginalMovie /\ Scenario(Prequel, P))
      => (rootMalId = P /\ intermediaries = <<malId>>)

\* C8 (amended): in that scenario the trace returns P with no intermediary:
\* the start node is never handed to onIntermediaryFound.
C8_PrequelScenario ==
  \A P \in Nodes :
    (~isOriginalMovie /\ Scenario(Prequel, P))
      => (rootMalId = P /\ intermediaries = <<>>)

\* C8 witness: the scenario has been traced from a start declared TV.
C8_Witness ==
  \E P \in Nodes : originalType = "TV" /\ ScenarioWalked(Prequel, P)

\* C9: while an item is processed whose native id (MyAnimeList anime id, or
\* Letterboxd slug+year key) was in the ledger when its processing began,
\* the output callback is not invoked and no line is appended to any log
\* file, in the first pass and in every later one.
C9_KnownItemIdempotent ==
  [][(callbacks' # callbacks \/ disk' # disk) => ~itemKnown']_vars

\* C9 witness: in the second pass the MyAnimeList adapter has gone past a
\* listing item that the first pass emitted, and the callback has still been
\* invoked only that once.
C9_Witness ==
  /\ pass = 2
  /\ spc = "malItem"
  /\ itemIdx = 2
  /\ itemKnown
  /\ Len(callbacks) = 1
  /\ callbacks[1].entry.malId = items[1].anime_id
  /\ Len(disk[AnnouncedDir]) = 1

\* C10: every invocation of the output callback, by either adapter, carries
\* an entry whose composite key was not in the by-key index of the ledger at
\* that moment.  Stated for the runs in which no request and no write fails.
C10_CallbackKeyNotInLedger ==
  failures = 0 => \A i \in 1..Len(callbacks) : ~callbacks[i].keyKnown

\* The root series a MyAnimeList entry stands for: rootMalId when the item
\* was traced to another anime, the item itself otherwise.
RootOf(e) == IF e.rootMalId # 0 THEN e.rootMalId ELSE e.malId

\* C11: over all passes the output callback is invoked at most once for
\* every root series, whichever listed items resolve to it and in whatever
\* order.  Stated for the runs in which no request and no write fails.
C11_OncePerRoot ==
  failures = 0 =>
    \A i, j \in 1..Len(callbacks) :
      (/\ i < j
       /\ callbacks[i].entry.source = "myanimelist"
       /\ callbacks[j].entry.source = "myanimelist")
        => RootOf(callbacks[i].entry) # RootOf(callbacks[j].entry)

\* The entry lines of the log: every line that is not an intermediary stub.
EntryLines(d) ==
  { disk[d][i] : i \in { k \in 1..Len(disk[d]) : ~IsIntermediaryStub(disk[d][k]) } }

\* C12: at-least-once delivery: whenever no notification is in progress,
\* every entry recorded in a log file has had its Discord notification
\* made, also after the process was stopped and started again.  Stated for
\* the runs in which no request and no write fails.
C12_LoggedEntriesNotified ==
  (failures = 0 /\ spc # "notify") =>
    \A d \in Dirs : EntryLines(d) \subseteq notified

\* C13: at most one refreshData call is in flight at any time.
C13_AtMostOnePassInFlight == InFlight <= 1

\* C14: for each rate-limited upstream, no two dispatched requests are
\* closer together than its minimum interval, however the calls interleave.
C14_MinimumInterval ==
  \A l \in Limiters :
    \A i, j \in 1..Len(dispatched[l]) :
      i < j => dispatched[l][j].at - dispatched[l][i].at >= MinDelay(l)

\* Every call of limiter l so far was made when no other call of it was
\* under way.
OneAfterAnother(l) ==
  /\ \A i \in 1..Len(dispatched[l]) : dispatched[l][i].alone
  /\ \A c \in Callers :
       (calls[c].limiter = l /\ calls[c].pc = "sleeping") => calls[c].alone

\* C15: for calls made one after another through one limiter, a call issued
\* less than the minimum delay after the previous dispatch is itself
\* dispatched at least the minimum delay after the previous dispatch.
C15_SequentialCallsSpaced ==
  \A l \in Limiters :
    OneAfterAnother(l) =>
      \A i \in 2..Len(dispatched[l]) :
        (dispatched[l][i].issued - dispatched[l][i - 1].at < MinDelay(l))
          => dispatched[l][i].at - dispatched[l][i - 1].at >= MinDelay(l)

\* C15 witness: the second Letterboxd call was issued 100 ms after the
\* first was dispatched, and was dispatched after its wait.
C15_Witness ==
  /\ OneAfterAnother(Letterboxd)
  /\ Len(dispatched[Letterboxd]) = 2
  /\ dispatched[Letterboxd][2].issued - dispatched[Letterboxd][1].at = 100
  /\ dispatched[Letterboxd][2].at - dispatched[Letterboxd][1].at >= 200

\* C16: a request is sent again only after a response with status 408, 429,
\* 500, 502, 503 or 504, at most 3 times (4 attempts in all); a response
\* with another failure status, or the fourth failure, rejects the promise.
C16_BoundedRetry ==
  /\ Len(responses) <= 4
  /\ \A i \in 1..(Len(responses) - 1) :
       responses[i].status \in {408, 429, 500, 502, 503, 504}
  /\ (hpc \in {"sent", "beforeRetry"} /\ responses # <<>>) =>
       responses[Len(responses)].status \in {408, 429, 500, 502, 503, 504}
  /\ hpc = "beforeRetry" => Len(responses) <= 3
  /\ hpc = "rejected" =>
       /\ responses[Len(responses)].status # 200
       /\ \/ responses[Len(responses)].status
               \notin {408, 429, 500, 502, 503, 504}
          \/ Len(responses) = 4
  /\ hpc = "resolved" => responses[Len(responses)].status = 200

\* C16 witness: the fourth attempt failed with a retried status and the
\* promise rejected.
C16_Witness ==
  /\ hpc = "rejected"
  /\ Len(responses) = 4
  /\ responses[4].status = 503

\* C17: whenever a response that is retried carries a Retry-After header
\* with a positive value, in seconds or as a date, the hook waits for that
\* value (a date counts in whole seconds, rounded up) and not for the
\* exponential backoff.
C17_RetryAfterHonoured ==
  \A i \in 1..Len(delays) :
    LET header == responses[i].retryAfter
    IN /\ (header.form = "seconds" /\ header.value > 0)
            => delays[i] = header.value * 1000
       /\ (header.form = "date" /\ header.value > 0)
            => (delays[i] >= header.value /\ delays[i] < header.value + 1000)

\* The ledger as it was when the item in progress began.
StartLedger == IF itemStart = NoSnapshot THEN Ledger ELSE itemStart

\* A step into the item catch block of an adapter before the callback has
\* returned: a detail request or a root request of the MyAnimeList adapter
\* fails, or the callback throws.
ItemCaught ==
  /\ failures' = failures + 1
  /\ \/ spc = "malItem"
     \/ spc = "malTrace" /\ tpc = "done"
     \/ spc = "append"
  /\ spc' \in {"malItem", "lbItem"}

\* A step into the item catch block after the callback has returned: the
\* write of the stub line of an intermediary fails.
StubCaught ==
  /\ failures' = failures + 1
  /\ spc = "stubWrite"
  /\ spc' = "malItem"

\* The adapter is at the next item of the same page of the same username.
AtNextItem ==
  /\ itemIdx' = itemIdx + 1
  /\ items' = items
  /\ user' = user
  /\ page' = page
  /\ spc' = (IF spc = "append" /\ entry.source = "letterboxd"
             THEN "lbItem" ELSE "malItem")

AllScrapes ==
  { <<"letterboxd", LetterboxdUsers[i]>> : i \in 1..Len(LetterboxdUsers) }
    \cup { <<"myanimelist", MyAnimeListUsers[i]>> :
             i \in 1..Len(MyAnimeListUsers) }

\* C19: a pass comes to its merge with the scrape of every configured
\* username of both sources begun, whatever scrapes failed as a whole.
C19_OtherUsersStillScraped ==
  spc = "merge" => started = AllScrapes

\* C19 witness: the listing page of the first Letterboxd username failed to
\* load (its film was never handed to the callback), the film of the second
\* username was emitted, and the pass is at its merge.
C19_Witness ==
  /\ spc = "merge"
  /\ pass = 1
  /\ restarts = 0
  /\ failures = 1
  /\ Len(lbList["ann"]) = 1
  /\ Len(lbList["bob"]) = 1
  /\ lbList["ann"][1].slug # lbList["bob"][1].slug
  /\ Len(callbacks) = 1
  /\ callbacks[1].entry.username = "bob"
  /\ Len(disk[AnnouncedDir]) = 1

\* The entries of the lines of the log that are JSON the schema accepts.
ValidEntries ==
  { ParseAnnouncedEntry(l) :
      l \in { x \in Range(disk[AnnouncedDir]) :
                ~NotJson(x) /\ SchemaAccepts(x) } }

\* C20: when refreshData has loaded the ledger, its three indices are the
\* keys, the MyAnimeList ids and the root ids of exactly the lines of the
\* log that are valid entries, whatever other lines the log holds, and
\* they are empty when the file is missing or cannot be read.
C20_IndicesOfValidLines ==
  (pass > 0 /\ spc = "lbPage" /\ page = 1 /\ user = 1) =>
    LET entries == IF readable THEN ValidEntries ELSE {}
    IN /\ byKey =
            {getEntryKey(e) : e \in entries} \cup
            {SlugKey(e.letterboxdSlug, e.year) :
               e \in {x \in entries :
                        x.source = "letterboxd" /\ x.letterboxdSlug # ""}}
       /\ byMalId = {e.malId : e \in entries} \ {0}
       /\ byRootMalId = {e.rootMalId : e \in entries} \ {0}

\* C20 witness: a log whose first line was cut short, followed by an object
\* the schema rejects and by a valid entry, has been loaded: the indices
\* hold the valid entry only.
C20_Witness ==
  /\ spc = "lbPage"
  /\ readable
  /\ disk[AnnouncedDir] = <<TornLine, OvaLine, SequelLine>>
  /\ byKey = {TvdbKey("100")}
  /\ byMalId = {2}
  /\ byRootMalId = {1}

\* C21: a write of a log file keeps every line the file holds, at its
\* place: the file after the write begins with the file before it.
C21_LogAppendOnly ==
  [][\A d \in Dirs :
       /\ Len(disk[d]) <= Len(disk'[d])
       /\ SubSeq(disk'[d], 1, Len(disk[d])) = disk[d]]_vars

\* C22: when a refreshData pass begins in a process in which no request
\* and no write has failed, each of the three indices holds everything it
\* held when the pass before it ended.
C22_IndicesOnlyGrow ==
  [][(spc = "idle" /\ pass' = pass + 1 /\ failures = 0) =>
       /\ byKey \subseteq byKey'
       /\ byMalId \subseteq byMalId'
       /\ byRootMalId \subseteq byRootMalId']_vars

\* C23: an intermediary stub is never published: no response of a list
\* endpoint holds an entry with the title of a stub, and the output
\* callback has never been invoked with one.
StubTitled(e) == Len(e.title) > 0 /\ Head(e.title) = "[Intermediary:"
C23_StubNeverPublished ==
  /\ \A pathname \in ListPaths : \A e \in Range(Response(pathname)) : ~StubTitled(e)
  /\ \A c \in Range(callbacks) : ~StubTitled(c.entry)

\* C23 witness: after a restart the log of ANNOUNCED_FILE holds the stub of
\* an intermediary beside the entry emitted for its item, and that entry
\* is served by /sonarr/anime.
C23_Witness ==
  /\ restarts > 0
  /\ \E l \in Range(disk[AnnouncedDir]) : StubTitled(l)
  /\ \E c \in Range(callbacks) :
        formatListEntry(c.entry) \in Range(Response("/sonarr/anime"))

\* C24: when a refreshData pass begins, the id of every intermediary whose
\* stub line has been written is known by source id, whichever data
\* directory is configured.
C24_IntermediariesStayMarked ==
  [][(spc = "idle" /\ pass' = pass + 1) =>
       \A d \in Dirs : \A l \in Range(disk[d]) :
         StubTitled(l) => l.malId \in byMalId']_vars

\* The class of entries the README gives for each list endpoint.
ListClass(pathname) ==
  CASE pathname = "/radarr/anime" -> [type |-> "movie", anime |-> TRUE, id |-> "tmdb"]
    [] pathname = "/radarr/movies" -> [type |-> "movie", anime |-> FALSE, id |-> "tmdb"]
    [] pathname = "/sonarr/anime" -> [type |-> "tv", anime |-> TRUE, id |-> "tvdb"]
    [] pathname = "/sonarr/shows" -> [type |-> "tv", anime |-> FALSE, id |-> "tvdb"]

InListClass(e, pathname) ==
  /\ e.type = ListClass(pathname).type
  /\ e.anime = ListClass(pathname).anime
  /\ e[ListClass(pathname).id] # ""

ListsOf(e) == {pathname \in ListPaths : formatListEntry(e) \in Range(Response(pathname))}

\* The responses are the classes: the response of each list endpoint is the
\* entries of allEntries of its class, in their order; an entry without the
\* id its type requires is in no response, and no entry is in two.
ListsAreTheClasses ==
  LET response == [pathname \in ListPaths |-> Response(pathname)]
      listed == [pathname \in ListPaths |-> Range(response[pathname])]
  IN /\ \A pathname \in ListPaths :
          LET OfClass(e) == InListClass(e, pathname)
              known == SelectSeq(allEntries, OfClass)
          IN response[pathname] =
               [i \in 1..Len(known) |-> formatListEntry(known[i])]
     /\ \A e \in Range(allEntries) :
          LET lists == {pathname \in ListPaths :
                         formatListEntry(e) \in listed[pathname]}
          IN /\ Cardinality(lists) <= 1
             /\ (e.type = "movie" /\ e.tmdb = "") => lists = {}
             /\ (e.type = "tv" /\ e.tvdb = "") => lists = {}

\* C25: the responses of the list endpoints are the classes of the known
\* entries at the start and after every step that changes allEntries (the
\* merge of a pass, the load of a restart), hence at all times: a response
\* is computed from allEntries alone.
C25_ListsAreTheClasses ==
  /\ ListsAreTheClasses
  /\ [][allEntries' # allEntries => ListsAreTheClasses']_vars

\* C25 witness: allEntries holds a film without a movie-database id, which
\* is in no list, beside an entry that is served by one list endpoint.
C25_Witness ==
  /\ \E e \in Range(allEntries) : e.type = "movie" /\ e.tmdb = "" /\ ListsOf(e) = {}
  /\ \E e \in Range(allEntries) : Cardinality(ListsOf(e)) = 1

\* The pass is inside the MyAnimeList scrapeSource.
InMalScrape ==
  \/ spc \in {"malPage", "malItem", "malTrace", "malStubs", "stubWrite"}
  \/ spc \in {"append", "notify"} /\ entry.source = "myanimelist"

LetterboxdScrapes ==
  { <<"letterboxd", LetterboxdUsers[i]>> : i \in 1..Len(LetterboxdUsers) }

\* C26: a pass enters the MyAnimeList scrape only from the end, or the
\* caught failure, of the scrape of the last Letterboxd username, with the
\* scrape of every Letterboxd username begun before; while it is in the
\* MyAnimeList scrape no Letterboxd scrape of the pass is left to run.
C26_AdaptersInSequence ==
  [][/\ (~InMalScrape /\ InMalScrape') =>
          /\ spc \in {"lbPage", "lbItem"}
          /\ user = Len(LetterboxdUsers)
          /\ LetterboxdScrapes \subseteq started
     /\ InMalScrape => (spc' \notin {"lbPage", "lbItem"}
                          /\ LetterboxdScrapes \subseteq started)]_vars

\* C26 witness: with two Letterboxd usernames, the pass is tracing an item
\* of the MyAnimeList watchlist after a film of the second username was
\* emitted.
C26_Witness ==
  /\ spc = "malTrace"
  /\ Len(LetterboxdUsers) = 2
  /\ \E c \in Range(callbacks) : c.entry.username = LetterboxdUsers[2]
  /\ started = LetterboxdScrapes \cup {<<"myanimelist", MyAnimeListUsers[user]>>}

\* C27: the step of the MyAnimeList adapter over a listing item whose
\* status is not 6 goes on to the next item and makes no request, changes
\* neither the ledger nor the log files and invokes no callback; and every
\* entry handed to the callback from MyAnimeList is that of an item listed
\* with status 6.
C27_OnlyPlanToWatch ==
  /\ [][(/\ spc = "malItem"
          /\ itemIdx <= Len(items)
          /\ items[itemIdx].status # 6
          /\ restarts' = restarts) =>
            /\ spc' = "malItem"
            /\ itemIdx' = itemIdx + 1
            /\ UNCHANGED <<byKey, byMalId, byRootMalId, disk, callbacks,
                           notified, newEntries, allEntries>>
            /\ UNCHANGED <<info, requests, failures, tpc>>]_vars
  /\ [](\A c \in Range(callbacks) :
          c.entry.source = "myanimelist" =>
            [anime_id |-> c.entry.malId, status |-> 6]
              \in Range(malList[c.entry.username]))

\* C27 witness: a pass over a watchlist that lists anime 1 as watching
\* and then another anime as plan to watch has come to its merge: the
\* callback was invoked once, for the second item.
C27_Witness ==
  /\ spc = "merge"
  /\ \E u \in DOMAIN malList :
        /\ Len(malList[u]) = 2
        /\ malList[u][1] = [anime_id |-> 1, status |-> 1]
        /\ malList[u][2].status = 6
        /\ Len(callbacks) = 1
        /\ callbacks[1].entry.malId = malList[u][2].anime_id

\* The composite key as a tuple: the movie-database id, else the
\* tv-database id, else title, year, source and username.
CompositeKey(e) ==
  IF e.tmdb # "" THEN <<"tmdb", e.tmdb>>
  ELSE IF e.tvdb # "" THEN <<"tvdb", e.tvdb>>
  ELSE <<e.title, e.year, e.source, e.username>>

\* The entries handed to the callback, written to a log or served.
SeenEntries ==
  {c.entry : c \in Range(callbacks)}
    \cup {AnnouncedToMedia(l) : l \in UNION {Range(disk[d]) : d \in Dirs}}
    \cup Range(allEntries)

\* C28: two entries have the same key string exactly when they have the
\* same composite key; the key the Letterboxd adapter computes for the
\* film it is about to emit is getEntryKey of the entry; the key of every
\* line of the log is in byKey when a pass has loaded the ledger, and the
\* key of a new entry is in byKey when processEntry has returned.
C28_OneKeyFunction ==
  /\ [](\A e1, e2 \in SeenEntries :
          (getEntryKey(e1) = getEntryKey(e2)) <=> (CompositeKey(e1) = CompositeKey(e2)))
  /\ []((spc \in {"append", "notify"} /\ entry.source = "letterboxd") =>
          LetterboxdEntryKey(entry.tmdb, entry.tvdb, items[itemIdx].title,
                             entry.year, entry.username) = getEntryKey(entry))
  /\ [][/\ (spc = "idle" /\ pass' = pass + 1) =>
            \A l \in Range(disk[AnnouncedDir]) : getEntryKey(l) \in byKey'
        /\ (spc = "notify" /\ spc' \in {"lbItem", "malStubs"}) =>
            getEntryKey(entry) \in byKey']_vars

\* C28 witness: a film whose page could not be loaded, and so has no id,
\* was emitted under a key made of its trimmed title, year, source and
\* username, the key was recorded, and a later pass has loaded it from
\* the log.
C28_Witness ==
  /\ pass = 2
  /\ spc = "lbItem"
  /\ \E c \in Range(callbacks) :
        /\ c.entry.tmdb = ""
        /\ c.entry.tvdb = ""
        /\ c.entry.title = <<"Akira">>
        /\ getEntryKey(c.entry) = <<"Akira", ":", "1988", ":", "letterboxd", ":", c.entry.username>>
        /\ getEntryKey(c.entry) \in byKey
        /\ \E l \in Range(disk[AnnouncedDir]) : getEntryKey(l) = getEntryKey(c.entry)

\* The pass is inside the Letterboxd scrapeSource.
InLetterboxdScrape ==
  \/ spc \in {"lbPage", "lbItem"}
  \/ spc \in {"append", "notify"} /\ entry.source = "letterboxd"

\* C29: the MyAnimeList adapter begins at offset 0, asks next for the
\* offset plus the number of items of the page it received, and leaves the
\* username at the first empty page; the Letterboxd adapter begins at page
\* 1, asks for the next page exactly when the page it received has a next
\* link, and leaves the username otherwise.  The offset never passes the
\* length of the list and the page number never passes the last page, and
\* each further request raises them: the scrape of a username makes at
\* most one listing request more than the list has pages.
C29_PagesInTurn ==
  /\ [][/\ (spc' = "malPage" /\ spc # "malItem") => page' = 0
        /\ (spc' = "malPage" /\ spc = "malItem") =>
             /\ itemIdx > Len(items)
             /\ Len(items) > 0
             /\ page' = page + Len(items)
             /\ user' = user
        /\ (spc = "malPage" /\ failures' = failures /\ restarts' = restarts) =>
             LET received == MalPage(malList[MyAnimeListUsers[user]], page)
             IN IF received = <<>>
                THEN spc' = "merge" \/ user' # user
                ELSE spc' = "malItem" /\ items' = received /\ page' = page
        /\ (spc' = "lbPage" /\ ~(spc = "lbItem" /\ user' = user)) => page' = 1
        /\ (spc = "lbItem" /\ itemIdx > Len(items) /\ restarts' = restarts) =>
             IF HasNextPage(lbList[LetterboxdUsers[user]], page)
             THEN spc' = "lbPage" /\ user' = user /\ page' = page + 1
             ELSE spc' # "lbPage" \/ user' # user]_vars
  /\ [](InMalScrape => page <= Len(malList[MyAnimeListUsers[user]]))
  /\ [](InLetterboxdScrape =>
          /\ page >= 1
          /\ (page - 1) * PageSize <= Len(lbList[LetterboxdUsers[user]]))

\* C29 witness: after two pages of one item each, the MyAnimeList adapter
\* is about to ask for offset 2, the page that comes back empty.
C29_Witness ==
  /\ spc = "malPage"
  /\ page = 2
  /\ Len(malList[MyAnimeListUsers[user]]) = 2
  /\ failures = 0

\* A pass whose pending step is always taken in the end, as the event loop
\* runs a continuation once the promise it awaits has settled.
SpecLocalFair == SpecLocal /\ WF_vars(ScrapeNext)

\* Under SpecLocalFair every pass comes to its end: from some point on no
\* scrape is running.
ScrapeComesToRest == <>[](spc = "idle")

\* C30: the list of intermediaries of a trace never holds the id the trace
\* started from, and holds no id twice.
C30_StartNeverIntermediary ==
  /\ malId \notin Range(intermediaries)
  /\ \A i, j \in 1..Len(intermediaries) :
       i # j => intermediaries[i] # intermediaries[j]

\* C30 witness: a trace that began at one anime, walked through a second
\* and came to a third has returned with the second, and not the first,
\* recorded as an intermediary.
C30_Witness ==
  /\ Done
  /\ Cardinality(visited) = 3
  /\ Len(intermediaries) = 1
  /\ intermediaries[1] \in visited \ {malId, rootMalId}

\* C31: when an adapter goes on to the next item of the watchlist, the log
\* of ANNOUNCED_FILE holds the line of every entry emitted so far in the
\* pass, and the stub line of every intermediary recorded for the item it
\* leaves.
C31_DurableBeforeNextItem ==
  [][(/\ spc \in {"notify", "malStubs", "stubWrite"}
      /\ spc' \in {"lbItem", "malItem"}) =>
        /\ \A e \in Range(newEntries') :
             AnnouncedEntry(e) \in Range(disk'[AnnouncedDir])
        /\ spc \in {"malStubs", "stubWrite"} =>
             \A interId \in Range(intermediaries) :
               \E l \in Range(disk'[AnnouncedDir]) :
                 StubTitled(l) /\ l.malId = interId]_vars

\* C32: the root a trace returns is not in the list of intermediaries of
\* that trace.
C32_RootNeverIntermediary ==
  Done => rootMalId \notin Range(intermediaries)

\* C33: when processEntry has returned for an entry of the MyAnimeList
\* adapter, the root the item was resolved to is in byRootMalId.
C33_EmittedRootIsKnown ==
  [][(spc = "notify" /\ entry.source = "myanimelist" /\ spc' = "malStubs") =>
       rootMalId \in byRootMalId']_vars

\* The anime an entry of the MyAnimeList adapter stands for.
EntryRoot(e) == IF e.rootMalId # 0 THEN e.rootMalId ELSE e.malId

\* The adapter takes its step after a trace that ended in the catch block.
AfterFailedTrace ==
  /\ spc = "malTrace"
  /\ tpc = "done"
  /\ returnedAt = "catch"
  /\ restarts' = restarts

\* The callback is invoked with an entry for the root the trace returned.
EmitsReturnedRoot ==
  /\ Len(callbacks') = Len(callbacks) + 1
  /\ EntryRoot(callbacks'[Len(callbacks')].entry) = rootMalId

FollowedRelation == rel[currentId][FindRelation(rel[currentId], ParentKinds)]

\* C35: a step of the walk from one node to its parent follows a Sequel
\* relation only when the walk began at a Movie and the node left is the
\* start node.
C35_SequelOnlyFromStartMovie ==
  [][(tpc = "select" /\ currentId' # currentId /\ tpc' = "loop"
        /\ FollowedRelation.relation = Sequel) =>
       (isOriginalMovie /\ currentId = malId)]_vars

\* C36: allEntries never holds two entries with the same composite key,
\* after the load at startup and after any number of passes.
C36_NoDuplicateKeys ==
  \A i, j \in 1..Len(allEntries) :
    getEntryKey(allEntries[i]) = getEntryKey(allEntries[j]) => i = j

\* The callback of the item in progress throws: the append of its line
\* fails, the only await of processEntry that can reject.
CallbackFailed ==
  /\ spc = "append"
  /\ failures' = failures + 1

\* The keys under which the adapter would mark the entry of the item.
ItemKeys(e) ==
  IF e.source = "letterboxd"
  THEN { LetterboxdEntryKey(e.tmdb, e.tvdb, e.title, e.year, e.username),
         SlugKey(e.letterboxdSlug, e.year) }
  ELSE {}

\* C37: when the callback fails for an item, the three indices and the log
\* files are what they were when the item began: no key, anime id, root id
\* or intermediary of the item is added and no stub line is written.  The
\* keys by which the adapter recognises the item (both keys of a film, the
\* anime id of a listed anime) are in neither the indices nor the log, so a
\* later pass does not skip it.
C37_FailedCallbackLeavesLedger ==
  [][CallbackFailed =>
       /\ <<byKey', byMalId', byRootMalId'>> = <<byKey, byMalId, byRootMalId>>
       /\ <<byKey', byMalId', byRootMalId'>> =
            <<StartLedger.byKey, StartLedger.byMalId, StartLedger.byRootMalId>>
       /\ disk' = StartLedger.disk
       /\ newEntries' = newEntries
       /\ ItemKeys(entry) \cap LedgerKeys' = {}
       /\ entry.source = "myanimelist" => entry.malId \notin LedgerMalIds'
       /\ spc' \in {"lbItem", "malItem"}]_vars

\* C37 witness: the callback failed for an anime reached through an
\* intermediary in the first pass, nothing was logged or marked, and the
\* second pass has invoked the callback for the same anime again and
\* written its line and the stub.
C37_Witness ==
  /\ restarts = 0
  /\ failures = 1
  /\ pass = 2
  /\ Len(callbacks) = 2
  /\ callbacks[1].entry.malId = callbacks[2].entry.malId
  /\ callbacks[1].entry.rootMalId # 0
  /\ callbacks[1].entry.rootMalId \in byRootMalId
  /\ \E l \in Range(disk[AnnouncedDir]) : StubTitled(l)

\* The hook took the Retry-After value of the response: a 429 whose header
\* gives a positive number of seconds, or a date in the future.
RetryAfterUsed(response) ==
  /\ response.status = 429
  /\ response.retryAfter.form \in {"seconds", "date"}
  /\ response.retryAfter.value > 0

\* The backoff of retries 1 to 6 in milliseconds.
BackoffTable == <<1000, 2000, 4000, 8000, 10000, 10000>>

\* C38: when the hook does not take a Retry-After value, the delay before
\* retry n is 1000, 2000, 4000 ms for n = 1, 2, 3, twice the backoff of the
\* retry before and never more than 10000 ms (the cap is met from the fifth
\* retry count on); a Retry-After of zero seconds or a date not in the
\* future leaves this backoff in place.
C38_ExponentialBackoff ==
  /\ \A n \in 1..Len(delays) :
       ~RetryAfterUsed(responses[n]) =>
         /\ delays[n] = BackoffTable[n]
         /\ delays[n] <= 10000
         /\ n > 1 => delays[n] = 2 * BackoffTable[n - 1]
  /\ \A n \in 1..Len(BackoffTable) :
       \A response \in Responses :
         ~RetryAfterUsed(response) =>
           RetryDelay(n, response) = BackoffTable[n]

\* C38 witness: three retries were made; the first followed a 429 with
\* Retry-After: 0, the second a 429 with a Retry-After date in the past,
\* and the delays were 1000, 2000 and 4000 ms.
C38_Witness ==
  /\ delays = <<1000, 2000, 4000>>
  /\ responses[1].status = 429
  /\ responses[1].retryAfter = [form |-> "seconds", value |-> 0]
  /\ responses[2].status = 429
  /\ responses[2].retryAfter = [form |-> "date", value |-> -1000]
====
